---------------------------- MODULE Spec2Model ----------------------------
(***************************************************************************)
(* SteamVR Tracker Jitter Analysis Tool.                                   *)
(*                                                                         *)
(* State machine of StatsCalculator (stats_calculator.py),                 *)
(* BaseStationPlotWidget (bs_plot_widget.py), TrackerPlotWidget            *)
(* (plot_widget.py), CSVExporter (csv_exporter.py), TrackerMonitor         *)
(* (tracker_monitor.py) and MainWindow (main.py).                          *)
(*                                                                         *)
(* Numbers.  Every float of the program is held in fixed point with three  *)
(* decimals: the float v is the integer 1000*v.  A position of 0.003 m is  *)
(* 3, the drift threshold 0.005 m is 5, and "distance * 1000.0" is the     *)
(* integer distance times 1000.  Quotients (a loss rate, a variance) are   *)
(* exact fractions [num, den] in lowest terms.  Time stamps are integers.  *)
(* Python's None is the empty tuple << >>, a value v that may be None is   *)
(* the 1-tuple << v >>.  A dict is a function whose DOMAIN is its key set. *)
(***************************************************************************)
EXTENDS Integers, Sequences, FiniteSets, TLC

(***************************************************************************)
(* Bounds of the model.                                                    *)
(***************************************************************************)
\* StatsCalculator(window_size=...): the configured capacity N of a window.
WindowSize == 2
\* add_sample and record_frame calls, over all devices, that the calculator
\* driven on its own holds the data of at one time.
MaxData == 4
\* acquisition ticks of one run of the main window.
MaxTicks == 3
\* devices the runtime holds at a time.
MaxAttached == 1
\* device activations / deactivations the runtime reports in one run.
MaxHotPlugs == 1
\* largest time stamp handed to a drift monitor driven on its own.
MaxTime == 2
\* BaseStationPlotWidget.max_samples, scaled down so that eviction happens.
MaxDriftSamples == 3

(***************************************************************************)
(* Program constants.                                                      *)
(***************************************************************************)
\* self.drift_threshold = 0.005 (metres), in fixed point.
drift_threshold == 5
\* self.plot_update_interval = 3
plot_update_interval == 3

None == << >>
Some(v) == << v >>

STATUS_CALIBRATING == "STATUS: CALIBRATING..."
STATUS_STABLE == "STATUS: STABLE"
STATUS_MOVEMENT == "MOVEMENT DETECTED"

(***************************************************************************)
(* Devices.  TrackerMonitor._discover_trackers prefixes the serial with    *)
(* the device class.                                                       *)
(***************************************************************************)
TrackedDeviceClass_Controller == "Controller"
TrackedDeviceClass_GenericTracker == "GenericTracker"
TrackedDeviceClass_TrackingReference == "TrackingReference"

SerialT == "[Tracker] LHR-1"
SerialC == "[Controller] LHR-2"
SerialB == "[BaseStation] LHB-3"
Serials == {SerialT, SerialC, SerialB}

\* Positions (metres, fixed point).  They lie on a 3-4-5 lattice, so every
\* distance between two of them is an integer: 3, 4, 5 or 8.
Positions == { <<0, 0, 0>>, <<0, 4, 0>>, <<3, 4, 0>>, <<0, 8, 0>> }

VARIABLES
    _history,        \* StatsCalculator._history: serial -> deque of positions
    _total_frames,   \* StatsCalculator._total_frames: serial -> int
    _lost_frames,    \* StatsCalculator._lost_frames: serial -> int
    bs_widgets,      \* MainWindow.bs_widgets: serial -> BaseStationPlotWidget
    tracker_widgets, \* MainWindow.tracker_widgets: serial -> TrackerPlotWidget
    device_list_items, \* MainWindow.device_list_items: serial -> item is checked
    _samples,        \* CSVExporter._samples: list of TrackerSample
    is_initialized,  \* TrackerMonitor.is_initialized (vr_system is set with it)
    _tracker_indices, \* TrackerMonitor._tracker_indices: list of device indices
    _tracker_serials, \* TrackerMonitor._tracker_serials: device index -> serial
    is_measuring,    \* MainWindow.is_measuring
    timer_active,    \* MainWindow.update_timer is running
    plot_update_counter, \* MainWindow.plot_update_counter
    start_btn,       \* start_btn.isEnabled()
    stop_btn,        \* stop_btn.isEnabled()
    save_btn,        \* save_btn.isEnabled()
    connect_btn,     \* connect_btn.isEnabled()
    sample_count_label, \* the number the label "Samples: n" shows
    attached,        \* the devices the tracking runtime holds at present
    events_pending,  \* a device (de)activation event waits in the runtime's queue
    hotplugs,        \* the number of such events so far
    now,             \* the clock that time.time() reads
    call,            \* the operation performed last, with its arguments; of the main
                     \* window's handlers the tick (with the samples it polled),
                     \* Start, Clear Data and a save that writes its file (with
                     \* the file's rows) are told apart, the others are "ui"
    added,           \* per serial, the positions given to add_sample since its last clear
    recorded,        \* per serial, the is_valid flags given to record_frame since its last clear
    fed,             \* per serial, the (timestamp, position) pairs given to the drift
                     \* monitor since its construction or last clear_data
    frames           \* per serial, the frames [is_valid, position] the runtime gave for
                     \* the device in the ticks since the calculator's last clear

calcVars == << _history, _total_frames, _lost_frames >>
calcLog == << added, recorded >>
driftVars == << bs_widgets, fed >>
monitorVars == << is_initialized, _tracker_indices, _tracker_serials >>
buttonVars == << start_btn, stop_btn, save_btn, connect_btn >>
runVars == << is_measuring, timer_active, plot_update_counter, sample_count_label >>
widgetVars == << tracker_widgets, device_list_items >>
envVars == << attached, events_pending, hotplugs >>
windowVars == << monitorVars, buttonVars, runVars, widgetVars, envVars, _samples, frames >>

vars == << calcVars, calcLog, driftVars, windowVars, now, call >>

(***************************************************************************)
(* Arithmetic helpers.                                                     *)
(***************************************************************************)
Min(a, b) == IF a <= b THEN a ELSE b

Abs(a) == IF a < 0 THEN -a ELSE a

RECURSIVE Gcd(_, _)
Gcd(a, b) == IF b = 0 THEN a ELSE Gcd(b, a % b)

\* The exact quotient a / b (b > 0), in lowest terms.
Ratio(a, b) ==
    LET g == Gcd(Abs(a), b)
    IN  [num |-> a \div g, den |-> b \div g]

\* The float 0.0.
Zero == [num |-> 0, den |-> 1]

\* dict[key] = value
Put(dict, key, value) ==
    [k \in DOMAIN dict \cup {key} |-> IF k = key THEN value ELSE dict[k]]

\* deque(maxlen=maxlen).append(x): the oldest entry leaves a full deque.
DequeAppend(deque, x, maxlen) ==
    IF maxlen = 0 THEN deque
    ELSE IF Len(deque) >= maxlen THEN Append(Tail(deque), x)
    ELSE Append(deque, x)

RECURSIVE SumSeq(_)
SumSeq(s) == IF s = << >> THEN 0 ELSE Head(s) + SumSeq(Tail(s))

Axis(data, i) == [k \in 1..Len(data) |-> data[k][i]]

Squares(xs) == [k \in 1..Len(xs) |-> xs[k] * xs[k]]

\* np.std(xs) squared: the population variance (sum of squared deviations
\* from the mean, divided by n), as an exact fraction.  For an empty array
\* numpy divides by zero: the result is not a number.
NaN == [num |-> 0, den |-> 0]

\* The variance with n - 1 for n (np.std(xs, ddof=1) squared).
np_var_ddof1(xs) ==
    LET n == Len(xs)
    IN  IF n = 0 THEN NaN
        ELSE IF n = 1 THEN NaN
        ELSE Ratio(n * SumSeq(Squares(xs)) - SumSeq(xs) * SumSeq(xs), n * (n - 1))

np_var(xs) ==
    LET n == Len(xs)
    IN  IF n = 0 THEN NaN
        ELSE Ratio(n * SumSeq(Squares(xs)) - SumSeq(xs) * SumSeq(xs), n * n)

(***************************************************************************)
(* StatsCalculator                                                         *)
(***************************************************************************)
\* add_sample(serial, position): the new _history.
add_sample_mut(history, serial, position) ==
    Put(history, serial,
        Append(IF serial \in DOMAIN history THEN history[serial] ELSE << >>,
               position))

add_sample(history, serial, position) ==
    Put(history, serial,
        DequeAppend(IF serial \in DOMAIN history THEN history[serial] ELSE << >>,
                    position, WindowSize))

\* record_frame(serial, is_valid): the new << _total_frames, _lost_frames >>.
record_frame_mut(total, lost, serial, is_valid) ==
    LET t == IF serial \in DOMAIN total THEN total[serial] ELSE 0
        l == IF serial \in DOMAIN total THEN lost[serial] ELSE 0
    IN  << Put(total, serial, t + 1),
           Put(lost, serial, IF is_valid THEN l + 1 ELSE l) >>

record_frame(total, lost, serial, is_valid) ==
    LET t == IF serial \in DOMAIN total THEN total[serial] ELSE 0
        l == IF serial \in DOMAIN total THEN lost[serial] ELSE 0
    IN  << Put(total, serial, t + 1),
           Put(lost, serial, IF ~is_valid THEN l + 1 ELSE l) >>

\* get_loss_rate(serial)
get_loss_rate_mut(total, lost, serial) ==
    IF serial \notin DOMAIN total \/ total[serial] = 0 THEN Zero
    ELSE Ratio(total[serial] - lost[serial], total[serial])

\* get_loss_rate without its test: the quotient whatever the total.
get_loss_rate_unguarded(total, lost, serial) ==
    LET t == IF serial \in DOMAIN total THEN total[serial] ELSE 0
        l == IF serial \in DOMAIN lost THEN lost[serial] ELSE 0
    IN  IF t = 0 THEN NaN ELSE Ratio(l, t)

get_loss_rate(total, lost, serial) ==
    IF serial \notin DOMAIN total \/ total[serial] = 0 THEN Zero
    ELSE Ratio(lost[serial], total[serial])

\* get_std_dev(serial): (sigma x, sigma y, sigma z), each given by its square.
get_std_dev_mut(history, serial) ==
    LET data == IF serial \in DOMAIN history THEN history[serial] ELSE << >>
    IN  << np_var(Axis(data, 1)), np_var(Axis(data, 2)), np_var(Axis(data, 3)) >>

get_std_dev(history, serial) ==
    IF serial \notin DOMAIN history \/ Len(history[serial]) < 2
    THEN << Zero, Zero, Zero >>
    ELSE LET data == history[serial]
         IN  << np_var(Axis(data, 1)), np_var(Axis(data, 2)), np_var(Axis(data, 3)) >>

\* get_distance_std(serial): np.std of the distances of the samples from their
\* mean position.  The distances are square roots, in general irrational; the
\* result is given by the squared distances, each scaled by n*n:
\* |p - mean|^2 * n^2 = sum over the axes of (n*p[i] - sum of axis i)^2.
DistancesSq(data) ==
    LET n == Len(data)
        d(k, i) == n * data[k][i] - SumSeq(Axis(data, i))
    IN  [k \in 1..n |-> d(k, 1) * d(k, 1) + d(k, 2) * d(k, 2) + d(k, 3) * d(k, 3)]

get_distance_std_mut(history, serial) ==
    LET data == IF serial \in DOMAIN history THEN history[serial] ELSE << >>
    IN  [std_of_sqrt |-> DistancesSq(data), scale |-> Len(data)]

get_distance_std(history, serial) ==
    IF serial \notin DOMAIN history \/ Len(history[serial]) < 2
    THEN Zero
    ELSE LET data == history[serial]
         IN  [std_of_sqrt |-> DistancesSq(data), scale |-> Len(data)]

\* get_sample_count(serial)
get_sample_count(history, serial) ==
    IF serial \notin DOMAIN history THEN 0 ELSE Len(history[serial])

\* clear(serial): the new << _history, _total_frames, _lost_frames >>.
clear_one(history, total, lost, serial) ==
    << IF serial \in DOMAIN history THEN Put(history, serial, << >>) ELSE history,
       IF serial \in DOMAIN total THEN Put(total, serial, 0) ELSE total,
       IF serial \in DOMAIN total THEN Put(lost, serial, 0) ELSE lost >>

\* clear(): every dict is emptied.
clear_all_devices == << << >>, << >>, << >> >>

\* "if serial:" for the argument serial, None or Some(string): false for None
\* and for the empty string.
Truthy(serial) == serial # None /\ serial[1] # ""

\* clear(serial) that leaves the loss counters as they are.
clear_history_only(history, total, lost, serial) ==
    IF Truthy(serial)
    THEN << clear_one(history, total, lost, serial[1])[1], total, lost >>
    ELSE << << >>, total, lost >>

\* clear(serial=None): the new << _history, _total_frames, _lost_frames >>.
clear(history, total, lost, serial) ==
    IF Truthy(serial) THEN clear_one(history, total, lost, serial[1])
    ELSE clear_all_devices

\* get_all_serials()
get_all_serials(history) == DOMAIN history

\* The calculator with a read that makes the entry it does not find, as a
\* collections.defaultdict would.
after_query_setdefault(history, total, lost, serial) ==
    << IF serial \in DOMAIN history THEN history ELSE Put(history, serial, << >>),
       IF serial \in DOMAIN total THEN total ELSE Put(total, serial, 0),
       IF serial \in DOMAIN lost THEN lost ELSE Put(lost, serial, 0) >>

\* << _history, _total_frames, _lost_frames >> after get_loss_rate,
\* get_std_dev, get_distance_std or get_sample_count of a serial.  The dicts
\* are plain dicts, every index is behind a test "serial not in", np.array
\* copies the deque, and the methods assign to nothing of self.
after_query(history, total, lost, serial) ==
    << history, total, lost >>

\* The names of the queries that take a serial.
Queries == {"get_loss_rate", "get_std_dev", "get_distance_std", "get_sample_count"}

\* What a query of a serial returns.
query_result(history, total, lost, q, serial) ==
    IF q = "get_loss_rate" THEN << get_loss_rate(total, lost, serial) >>
    ELSE IF q = "get_std_dev" THEN get_std_dev(history, serial)
    ELSE IF q = "get_distance_std" THEN << get_distance_std(history, serial) >>
    ELSE << get_sample_count(history, serial) >>

(***************************************************************************)
(* MainWindow.__init__ and _setup_ui: the window as constructed, beside    *)
(* the StatsCalculator and the drift monitors.  No device is attached.     *)
(***************************************************************************)
sample_rate == 90

NoLog == [s \in Serials |-> << >>]

InitWindow ==
    /\ tracker_widgets = << >>
    /\ device_list_items = << >>
    /\ _samples = << >>
    /\ is_initialized = FALSE
    /\ _tracker_indices = << >>
    /\ _tracker_serials = << >>
    /\ is_measuring = FALSE
    /\ timer_active = FALSE
    /\ plot_update_counter = 0
    /\ start_btn = FALSE
    /\ stop_btn = FALSE
    /\ save_btn = FALSE
    /\ connect_btn = TRUE
    /\ sample_count_label = 0
    /\ attached = {}
    /\ events_pending = FALSE
    /\ hotplugs = 0
    /\ frames = NoLog

(***************************************************************************)
(* StatsCalculator driven on its own: any sequence of its operations.      *)
(***************************************************************************)
\* The devices the calculator is called for; the third serial is never seen.
\* clear is also called with the empty string for a serial.
CalcSerials == {SerialT, SerialB}

InitCalc ==
    /\ _history = << >>
    /\ _total_frames = << >>
    /\ _lost_frames = << >>
    /\ call = [op |-> "init"]
    /\ added = NoLog
    /\ recorded = NoLog
    /\ bs_widgets = << >>
    /\ fed = NoLog
    /\ now = 0
    /\ InitWindow

\* What the devices have been given since their last clear.
RECURSIVE SumOver(_, _)
SumOver(f, S) ==
    IF S = {} THEN 0
    ELSE LET x == CHOOSE y \in S : TRUE IN f[x] + SumOver(f, S \ {x})

DataSize == SumOver([s \in Serials |-> Len(added[s]) + Len(recorded[s])], Serials)

CalcAddSample ==
    \E s \in CalcSerials, p \in Positions :
        /\ DataSize < MaxData
        /\ _history' = add_sample(_history, s, p)
        /\ added' = [added EXCEPT ![s] = Append(@, p)]
        /\ call' = [op |-> "add_sample", serial |-> s, position |-> p]
        /\ UNCHANGED << _total_frames, _lost_frames, recorded, driftVars, windowVars, now >>

CalcRecordFrame ==
    \E s \in CalcSerials, v \in BOOLEAN :
        /\ DataSize < MaxData
        /\ LET r == record_frame(_total_frames, _lost_frames, s, v)
           IN  /\ _total_frames' = r[1]
               /\ _lost_frames' = r[2]
        /\ recorded' = [recorded EXCEPT ![s] = Append(@, v)]
        /\ call' = [op |-> "record_frame", serial |-> s, is_valid |-> v]
        /\ UNCHANGED << _history, added, driftVars, windowVars, now >>

CalcClearOne ==
    \E s \in CalcSerials \cup {""} :
        /\ LET r == clear(_history, _total_frames, _lost_frames, Some(s))
           IN  /\ _history' = r[1]
               /\ _total_frames' = r[2]
               /\ _lost_frames' = r[3]
        /\ added' = IF Truthy(Some(s)) THEN [added EXCEPT ![s] = << >>] ELSE NoLog
        /\ recorded' = IF Truthy(Some(s)) THEN [recorded EXCEPT ![s] = << >>] ELSE NoLog
        /\ call' = [op |-> "clear", serial |-> s,
                    had |-> [x \in Serials |->
                               << get_sample_count(_history, x),
                                  IF x \in DOMAIN _total_frames THEN _total_frames[x] ELSE 0,
                                  IF x \in DOMAIN _lost_frames THEN _lost_frames[x] ELSE 0 >>]]
        /\ UNCHANGED << driftVars, windowVars, now >>

CalcClearAll ==
    /\ LET r == clear(_history, _total_frames, _lost_frames, None)
       IN  /\ _history' = r[1]
           /\ _total_frames' = r[2]
           /\ _lost_frames' = r[3]
    /\ added' = NoLog
    /\ recorded' = NoLog
    /\ call' = [op |-> "clear_all"]
    /\ UNCHANGED << driftVars, windowVars, now >>

\* A query of a serial, of a device with state or without.
CalcQuery ==
    \E q \in Queries, s \in Serials :
        /\ LET r == after_query(_history, _total_frames, _lost_frames, s)
           IN  /\ _history' = r[1]
               /\ _total_frames' = r[2]
               /\ _lost_frames' = r[3]
        /\ call' = [op |-> q, serial |-> s,
                    result |-> query_result(_history, _total_frames, _lost_frames, q, s)]
        /\ UNCHANGED << added, recorded, driftVars, windowVars, now >>

\* get_all_serials(): list(self._history.keys()) is a new list.
CalcGetAllSerials ==
    /\ call' = [op |-> "get_all_serials", result |-> get_all_serials(_history)]
    /\ UNCHANGED << calcVars, added, recorded, driftVars, windowVars, now >>

NextCalc ==
    \/ CalcAddSample
    \/ CalcRecordFrame
    \/ CalcClearOne
    \/ CalcClearAll
    \/ CalcQuery
    \/ CalcGetAllSerials

SpecCalc == InitCalc /\ [][NextCalc]_vars

(***************************************************************************)
(* BaseStationPlotWidget                                                   *)
(***************************************************************************)
\* np.linalg.norm(v), exact on the lattice of Positions.
NormSq(v) == v[1] * v[1] + v[2] * v[2] + v[3] * v[3]

Norm(v) == CHOOSE r \in 0..(Abs(v[1]) + Abs(v[2]) + Abs(v[3])) : r * r = NormSq(v)

Sub(p, q) == << p[1] - q[1], p[2] - q[2], p[3] - q[3] >>

RECURSIVE MaxSeq(_)
MaxSeq(xs) ==
    IF Len(xs) = 1 THEN Head(xs)
    ELSE LET m == MaxSeq(Tail(xs)) IN IF Head(xs) >= m THEN Head(xs) ELSE m

STATS_INITIAL == "Drift: 0.00 mm"

\* __init__ and _setup_ui: the widget as constructed.  curve is the data the
\* plot shows, stats_label the text "Curr: .. Max: .." given by its numbers.
BaseStationPlotWidget ==
    [ start_time |-> None,
      initial_position |-> None,
      time_data |-> << >>,
      drift_data |-> << >>,
      status_label |-> STATUS_CALIBRATING,
      stats_label |-> STATS_INITIAL,
      curve |-> << << >>, << >> >> ]

\* add_sample(timestamp, position) with the status kept in real time: the
\* else branch puts the label back to stable.
bs_add_sample_realtime(w, timestamp, position) ==
    LET initial_position ==
            IF w.initial_position = None THEN Some(position) ELSE w.initial_position
        start_time == IF w.start_time = None THEN Some(timestamp) ELSE w.start_time
        distance == Norm(Sub(position, initial_position[1]))
    IN  [ w EXCEPT
            !.initial_position = initial_position,
            !.start_time = start_time,
            !.time_data = DequeAppend(@, timestamp - start_time[1], MaxDriftSamples),
            !.drift_data = DequeAppend(@, distance * 1000, MaxDriftSamples),
            !.status_label =
                IF distance > drift_threshold THEN STATUS_MOVEMENT ELSE STATUS_STABLE ]

\* add_sample(timestamp, position) following a moved device: a sample beyond
\* the threshold becomes the new baseline.
bs_add_sample_rebase(w, timestamp, position) ==
    LET initial_position ==
            IF w.initial_position = None THEN Some(position) ELSE w.initial_position
        start_time == IF w.start_time = None THEN Some(timestamp) ELSE w.start_time
        distance == Norm(Sub(position, initial_position[1]))
    IN  [ w EXCEPT
            !.initial_position =
                IF distance > drift_threshold THEN Some(position) ELSE initial_position,
            !.start_time = start_time,
            !.time_data = DequeAppend(@, timestamp - start_time[1], MaxDriftSamples),
            !.drift_data = DequeAppend(@, distance * 1000, MaxDriftSamples),
            !.status_label =
                IF distance > drift_threshold THEN STATUS_MOVEMENT
                ELSE IF w.initial_position = None THEN STATUS_STABLE
                ELSE w.status_label ]

\* add_sample(timestamp, position) measuring the first sample from the
\* origin instead of from itself.
bs_add_sample_origin(w, timestamp, position) ==
    LET initial_position ==
            IF w.initial_position = None THEN Some(<<0, 0, 0>>) ELSE w.initial_position
        start_time == IF w.start_time = None THEN Some(timestamp) ELSE w.start_time
        distance == Norm(Sub(position, initial_position[1]))
    IN  [ w EXCEPT
            !.initial_position =
                IF w.initial_position = None THEN Some(position) ELSE w.initial_position,
            !.start_time = start_time,
            !.time_data = DequeAppend(@, timestamp - start_time[1], MaxDriftSamples),
            !.drift_data = DequeAppend(@, distance * 1000, MaxDriftSamples),
            !.status_label =
                IF distance > drift_threshold THEN STATUS_MOVEMENT
                ELSE IF w.initial_position = None THEN STATUS_STABLE
                ELSE w.status_label ]

\* add_sample with the comparison of line 107 weakened to "at or beyond".
bs_add_sample_atleast(w, timestamp, position) ==
    LET initial_position ==
            IF w.initial_position = None THEN Some(position) ELSE w.initial_position
        label == IF w.initial_position = None THEN STATUS_STABLE ELSE w.status_label
        start_time == IF w.start_time = None THEN Some(timestamp) ELSE w.start_time
        relative_time == timestamp - start_time[1]
        distance == Norm(Sub(position, initial_position[1]))
        distance_mm == distance * 1000
    IN  [ w EXCEPT
            !.initial_position = initial_position,
            !.start_time = start_time,
            !.time_data = DequeAppend(@, relative_time, MaxDriftSamples),
            !.drift_data = DequeAppend(@, distance_mm, MaxDriftSamples),
            !.status_label =
                IF distance >= drift_threshold THEN STATUS_MOVEMENT ELSE label ]

\* add_sample with a displacement series that is never trimmed.
bs_add_sample_untrimmed(w, timestamp, position) ==
    LET initial_position ==
            IF w.initial_position = None THEN Some(position) ELSE w.initial_position
        label == IF w.initial_position = None THEN STATUS_STABLE ELSE w.status_label
        start_time == IF w.start_time = None THEN Some(timestamp) ELSE w.start_time
        relative_time == timestamp - start_time[1]
        distance == Norm(Sub(position, initial_position[1]))
        distance_mm == distance * 1000
    IN  [ w EXCEPT
            !.initial_position = initial_position,
            !.start_time = start_time,
            !.time_data = DequeAppend(@, relative_time, MaxDriftSamples),
            !.drift_data = Append(@, distance_mm),
            !.status_label =
                IF distance > drift_threshold THEN STATUS_MOVEMENT ELSE label ]

\* add_sample(timestamp, position)
bs_add_sample(w, timestamp, position) ==
    LET \* if self.initial_position is None: take the baseline, label STABLE
        initial_position ==
            IF w.initial_position = None THEN Some(position) ELSE w.initial_position
        label == IF w.initial_position = None THEN STATUS_STABLE ELSE w.status_label
        \* if self.start_time is None
        start_time == IF w.start_time = None THEN Some(timestamp) ELSE w.start_time
        relative_time == timestamp - start_time[1]
        distance == Norm(Sub(position, initial_position[1]))
        distance_mm == distance * 1000
    IN  [ w EXCEPT
            !.initial_position = initial_position,
            !.start_time = start_time,
            !.time_data = DequeAppend(@, relative_time, MaxDriftSamples),
            !.drift_data = DequeAppend(@, distance_mm, MaxDriftSamples),
            \* the else branch changes nothing: the label stays as it is
            !.status_label =
                IF distance > drift_threshold THEN STATUS_MOVEMENT ELSE label ]

\* update_plot()
bs_update_plot(w) ==
    IF Len(w.time_data) < 2 THEN w
    ELSE [ w EXCEPT
             !.curve = << w.time_data, w.drift_data >>,
             !.stats_label = << w.drift_data[Len(w.drift_data)], MaxSeq(w.drift_data) >> ]

\* clear_data() that leaves the baseline in place.
bs_clear_data_keep(w) ==
    [ w EXCEPT
        !.time_data = << >>,
        !.drift_data = << >>,
        !.start_time = None,
        !.curve = << << >>, << >> >>,
        !.stats_label = STATS_INITIAL,
        !.status_label = STATUS_CALIBRATING ]

\* clear_data() without line 147: the time origin is kept.
bs_clear_data_keeporigin(w) ==
    [ w EXCEPT
        !.time_data = << >>,
        !.drift_data = << >>,
        !.initial_position = None,
        !.curve = << << >>, << >> >>,
        !.stats_label = STATS_INITIAL,
        !.status_label = STATUS_CALIBRATING ]

\* clear_data()
bs_clear_data(w) ==
    [ w EXCEPT
        !.time_data = << >>,
        !.drift_data = << >>,
        !.start_time = None,
        !.initial_position = None,
        !.curve = << << >>, << >> >>,
        !.stats_label = STATS_INITIAL,
        !.status_label = STATUS_CALIBRATING ]

(***************************************************************************)
(* A drift monitor driven on its own: any sequence of its operations, with *)
(* time stamps read from a clock that does not run backwards.              *)
(***************************************************************************)
InitDrift ==
    /\ _history = << >>
    /\ _total_frames = << >>
    /\ _lost_frames = << >>
    /\ call = [op |-> "init"]
    /\ added = NoLog
    /\ recorded = NoLog
    /\ bs_widgets = [s \in {SerialB} |-> BaseStationPlotWidget]
    /\ fed = NoLog
    /\ now = 0
    /\ InitWindow

DriftAddSample ==
    \E s \in DOMAIN bs_widgets, p \in Positions, t \in {now, now + 1} :
        /\ t <= MaxTime
        /\ Len(fed[s]) < MaxData
        /\ now' = t
        /\ bs_widgets' = [bs_widgets EXCEPT ![s] = bs_add_sample(@, t, p)]
        /\ fed' = [fed EXCEPT ![s] = Append(@, << t, p >>)]
        /\ call' = [op |-> "bs_add_sample", serial |-> s, timestamp |-> t, position |-> p]
        /\ UNCHANGED << calcVars, calcLog, windowVars >>

DriftUpdatePlot ==
    \E s \in DOMAIN bs_widgets :
        /\ bs_widgets' = [bs_widgets EXCEPT ![s] = bs_update_plot(@)]
        /\ call' = [op |-> "bs_update_plot", serial |-> s]
        /\ UNCHANGED << calcVars, calcLog, windowVars, fed, now >>

DriftClearData ==
    \E s \in DOMAIN bs_widgets :
        /\ bs_widgets' = [bs_widgets EXCEPT ![s] = bs_clear_data(@)]
        /\ fed' = [fed EXCEPT ![s] = << >>]
        /\ call' = [op |-> "bs_clear_data", serial |-> s, was |-> bs_widgets[s].status_label]
        /\ UNCHANGED << calcVars, calcLog, windowVars, now >>

NextDrift ==
    \/ DriftAddSample
    \/ DriftUpdatePlot
    \/ DriftClearData

SpecDrift == InitDrift /\ [][NextDrift]_vars

(***************************************************************************)
(* TrackerMonitor                                                          *)
(***************************************************************************)
\* The devices of the model: one of each class that _discover_trackers
\* keeps, each at its own device index.
DevT == [index |-> 1, class |-> TrackedDeviceClass_GenericTracker, serial |-> "LHR-1"]
DevC == [index |-> 2, class |-> TrackedDeviceClass_Controller, serial |-> "LHR-2"]
DevB == [index |-> 3, class |-> TrackedDeviceClass_TrackingReference, serial |-> "LHB-3"]
Devices == {DevT, DevC, DevB}

\* The sets of devices the runtime may hold at a time.
AttachedSets == {a \in SUBSET Devices : Cardinality(a) <= MaxAttached}

\* vr_system.getTrackedDeviceClass(i), with the set of attached devices.
getTrackedDeviceClass(att, i) ==
    IF \E d \in att : d.index = i
    THEN (CHOOSE d \in att : d.index = i).class
    ELSE "Invalid"

\* _get_device_serial(i)
get_device_serial(att, i) == (CHOOSE d \in att : d.index = i).serial

\* The serial with the prefix of its class (lines 64-70).
PrefixedSerial(device_class, serial) ==
    IF device_class = TrackedDeviceClass_Controller THEN "[Controller] " \o serial
    ELSE IF device_class = TrackedDeviceClass_TrackingReference
         THEN "[BaseStation] " \o serial
    ELSE "[Tracker] " \o serial

\* The indices of a set in ascending order: range(k_unMaxTrackedDeviceCount)
\* visits them so.
RECURSIVE Ascending(_)
Ascending(S) ==
    IF S = {} THEN << >>
    ELSE LET m == CHOOSE x \in S : \A y \in S : x <= y
         IN  << m >> \o Ascending(S \ {m})

\* _discover_trackers(): the new << _tracker_indices, _tracker_serials >>.
discover_trackers(att) ==
    LET found == {d.index : d \in att}
    IN  << Ascending(found),
           [i \in found |->
               PrefixedSerial(getTrackedDeviceClass(att, i), get_device_serial(att, i))] >>

\* Raw frames.  A transform is a 3x4 matrix, rows first; its entries are
\* floats in fixed point.  M0 is no rotation at the origin, M1 a quarter turn
\* about z at (0, 0.008, 0).
M0 == << <<1000, 0, 0, 0>>, <<0, 1000, 0, 0>>, <<0, 0, 1000, 0>> >>
M1 == << <<0, -1000, 0, 0>>, <<1000, 0, 0, 8>>, <<0, 0, 1000, 0>> >>

\* The poses the runtime may give for one device in one tick: not valid (the
\* matrix is then whatever it was), or valid with one of the two transforms.
Poses ==
    { [bPoseIsValid |-> FALSE, mDeviceToAbsoluteTracking |-> M1],
      [bPoseIsValid |-> TRUE, mDeviceToAbsoluteTracking |-> M0],
      [bPoseIsValid |-> TRUE, mDeviceToAbsoluteTracking |-> M1] }

\* np.degrees(np.arctan2(y, x)) for entries that are 0, 1.0 or -1.0.
arctan2_degrees(y, x) ==
    IF y = 0 THEN (IF x < 0 THEN 180000 ELSE 0)
    ELSE IF x = 0 THEN (IF y > 0 THEN 90000 ELSE -90000)
    ELSE IF x > 0 THEN (IF y > 0 THEN 45000 ELSE -45000)
    ELSE (IF y > 0 THEN 135000 ELSE -135000)

\* np.degrees(np.arcsin(v)) for v that is 0, 1.0 or -1.0.
arcsin_degrees(v) == IF v = 0 THEN 0 ELSE IF v > 0 THEN 90000 ELSE -90000

\* The body of the loop of get_all_tracker_positions with every pose taken
\* as valid.
TrackerData_allvalid(pose, device_index, serial, device_class) ==
    LET matrix == pose.mDeviceToAbsoluteTracking
    IN  [ serial |-> serial,
          device_index |-> device_index,
          position |-> << matrix[1][4], matrix[2][4], matrix[3][4] >>,
          rotation |-> << arctan2_degrees(matrix[3][2], matrix[3][3]),
                          arcsin_degrees(-matrix[3][1]),
                          arctan2_degrees(matrix[2][1], matrix[1][1]) >>,
          is_valid |-> TRUE,
          device_class |-> device_class ]

\* The body of the loop with the position and rotation read from the matrix
\* whether the pose is valid or not.
TrackerData_nozero(pose, device_index, serial, device_class) ==
    [TrackerData_allvalid(pose, device_index, serial, device_class)
        EXCEPT !.is_valid = pose.bPoseIsValid]

\* The body of the loop of get_all_tracker_positions: one TrackerData.
TrackerData(pose, device_index, serial, device_class) ==
    LET is_valid == pose.bPoseIsValid
        matrix == pose.mDeviceToAbsoluteTracking
    IN  [ serial |-> serial,
          device_index |-> device_index,
          position |->
              IF is_valid THEN << matrix[1][4], matrix[2][4], matrix[3][4] >>
              ELSE << 0, 0, 0 >>,
          rotation |->
              IF is_valid
              THEN << arctan2_degrees(matrix[3][2], matrix[3][3]),
                      arcsin_degrees(-matrix[3][1]),
                      arctan2_degrees(matrix[2][1], matrix[1][1]) >>
              ELSE << 0, 0, 0 >>,
          is_valid |-> is_valid,
          device_class |-> device_class ]

\* get_all_tracker_positions(), with the poses the runtime gives (device
\* index -> pose): one TrackerData per index of _tracker_indices, in order.
get_all_tracker_positions(initialized, indices, serials, att, poses) ==
    IF ~initialized THEN << >>
    ELSE [ k \in 1..Len(indices) |->
             TrackerData(poses[indices[k]], indices[k], serials[indices[k]],
                         getTrackedDeviceClass(att, indices[k])) ]

(***************************************************************************)
(* TrackerPlotWidget                                                       *)
(***************************************************************************)
\* The text of stats_label without numbers, sigma written s.
STATS_NONE == "sx: --  sy: --  sz: --"

tracker_max_samples == 500

\* __init__ and _setup_ui.  data holds the seven deques side by side, one
\* entry << relative time, position, rotation >> per sample; curve is the
\* data the plot shows; loss_label and stats_label are given by the numbers
\* their texts print.  A widget is not visible until it is shown.
TrackerPlotWidget ==
    [ is_enabled |-> FALSE,
      visible |-> FALSE,
      start_time |-> None,
      data |-> << >>,
      curve |-> << >>,
      loss_label |-> Zero,
      stats_label |-> STATS_NONE ]

\* add_sample(timestamp, position, rotation)
tw_add_sample(w, timestamp, position, rotation) ==
    LET start_time == IF w.start_time = None THEN Some(timestamp) ELSE w.start_time
    IN  [ w EXCEPT
            !.start_time = start_time,
            !.data = DequeAppend(@, << timestamp - start_time[1], position, rotation >>,
                                 tracker_max_samples) ]

\* update_plot()
tw_update_plot(w) == IF Len(w.data) < 2 THEN w ELSE [w EXCEPT !.curve = w.data]

\* update_stats(sigma_x, sigma_y, sigma_z)
tw_update_stats(w, std_dev) == [w EXCEPT !.stats_label = std_dev]

\* update_loss_rate(loss_rate)
tw_update_loss_rate(w, loss_rate) == [w EXCEPT !.loss_label = loss_rate]

\* clear_data()
tw_clear_data(w) ==
    [ w EXCEPT
        !.data = << >>,
        !.start_time = None,
        !.curve = << >>,
        !.stats_label = STATS_NONE ]

\* set_enabled(enabled)
tw_set_enabled(w, enabled) == [w EXCEPT !.is_enabled = enabled]

(***************************************************************************)
(* CSVExporter                                                             *)
(***************************************************************************)
\* add_sample(timestamp, serial, position, rotation, std_dev): the new _samples.
csv_add_sample(samples, timestamp, serial, position, rotation, std_dev) ==
    Append(samples,
           [ timestamp |-> timestamp,
             serial |-> serial,
             x |-> position[1], y |-> position[2], z |-> position[3],
             rot_pitch |-> rotation[1], rot_yaw |-> rotation[2], rot_roll |-> rotation[3],
             sigma_x |-> std_dev[1], sigma_y |-> std_dev[2], sigma_z |-> std_dev[3] ])

\* get_sample_count()
csv_get_sample_count(samples) == Len(samples)

\* The text of a float with six decimals, f"{v:.6f}", given by the number of
\* millionths it shows.  A float held in fixed point is a whole number of
\* thousandths.
Format6(v) == [decimals |-> 6, millionths |-> v * 1000]

\* The largest r in lo..hi with (2r - 1)^2 * den <= 4 * num * 10^6, that is
\* with r - 1/2 <= 1000 * sqrt(num / den); lo is such an r.
RECURSIVE RoundedRoot(_, _, _, _)
RoundedRoot(num, den, lo, hi) ==
    IF lo >= hi THEN lo
    ELSE LET mid == (lo + hi + 1) \div 2
         IN  IF (2 * mid - 1) * (2 * mid - 1) * den <= 4000000 * num
             THEN RoundedRoot(num, den, mid, hi)
             ELSE RoundedRoot(num, den, lo, mid - 1)

\* An integer that is at least the square root of num / den.
RootBound(num, den) == CHOOSE k \in 0..num : k * k * den >= num

\* f"{sigma:.6f}" for a standard deviation given by its square num / den (in
\* fixed point): sigma is sqrt(num / den) thousandths, shown rounded to the
\* nearest millionth.
Format6Sigma(var) ==
    [ decimals |-> 6,
      millionths |->
          IF var.num = 0 THEN 0
          ELSE RoundedRoot(var.num, var.den, 0, 1000 * RootBound(var.num, var.den) + 1) ]

CSV_HEADER ==
    << "Timestamp", "Device Serial", "Pos X", "Pos Y", "Pos Z",
       "Rot Pitch", "Rot Yaw", "Rot Roll", "Sigma X", "Sigma Y", "Sigma Z" >>

\* The row that save() writes for one sample.
csv_row(sample) ==
    << Format6(sample.timestamp * 1000),
       sample.serial,
       Format6(sample.x), Format6(sample.y), Format6(sample.z),
       Format6(sample.rot_pitch), Format6(sample.rot_yaw), Format6(sample.rot_roll),
       Format6Sigma(sample.sigma_x), Format6Sigma(sample.sigma_y),
       Format6Sigma(sample.sigma_z) >>

\* save() that writes the newest sample first.
csv_save_reversed(samples) ==
    << CSV_HEADER >> \o [k \in 1..Len(samples) |-> csv_row(samples[Len(samples) + 1 - k])]

\* save(): the rows of the file it writes.
csv_save(samples) ==
    << CSV_HEADER >> \o [k \in 1..Len(samples) |-> csv_row(samples[k])]

\* clear()
csv_clear == << >>

(***************************************************************************)
(* MainWindow.  Colours, layouts and the texts that only repeat other      *)
(* state (the status line, the device count, the connect button's caption) *)
(* are left out; of a widget's place in a layout only isVisible() is kept. *)
(* closeEvent ends the program and has no handler after it; it is left    *)
(* out.                                                                    *)
(***************************************************************************)
\* "[BaseStation]" in serial
IsBaseStationSerial(serial) ==
    \E d \in Devices : serial = "[BaseStation] " \o d.serial

\* The range of a dict.
Values(dict) == {dict[k] : k \in DOMAIN dict}

\* _update_tracker_widgets(clear_all): the new
\* << tracker_widgets, bs_widgets, device_list_items >>.  A widget taken out
\* of its layout is no longer visible; the widgets of the listed devices
\* that are checked are shown again.
update_tracker_widgets(tw, bs, items, serials, clear_all) ==
    LET tw0 == IF clear_all THEN << >> ELSE tw
        bs0 == IF clear_all THEN << >> ELSE bs
        items0 == IF clear_all THEN << >> ELSE items
        listed_bs == {x \in Values(serials) : IsBaseStationSerial(x)}
        listed == Values(serials) \ listed_bs
        bs1 == [x \in DOMAIN bs0 \cup listed_bs |->
                   IF x \in DOMAIN bs0 THEN bs0[x] ELSE BaseStationPlotWidget]
        items1 == [x \in DOMAIN items0 \cup listed |->
                      IF x \in DOMAIN items0 THEN items0[x] ELSE FALSE]
        tw1 == [x \in DOMAIN tw0 \cup listed |->
                   LET w == IF x \in DOMAIN tw0 THEN tw0[x] ELSE TrackerPlotWidget
                   IN  IF x \in listed
                       THEN [tw_set_enabled(w, items1[x]) EXCEPT !.visible = items1[x]]
                       ELSE [w EXCEPT !.visible = FALSE]]
    IN  << tw1, bs1, items1 >>

\* The state one tick works on, as a record: the calculator, the widgets, the
\* exporter, and the logs of what they were given.
TickState ==
    [ history |-> _history, total |-> _total_frames, lost |-> _lost_frames,
      bs |-> bs_widgets, tw |-> tracker_widgets, samples |-> _samples,
      added |-> added, recorded |-> recorded, fed |-> fed ]

\* The test of lines 494-500 without the comparison of the device class.
IsValidReference_anyclass(data) ==
    data.is_valid

IsValidReference(data) ==
    data.is_valid /\ data.device_class = TrackedDeviceClass_TrackingReference

IsValidOther(data) ==
    data.is_valid /\ data.device_class # TrackedDeviceClass_TrackingReference

\* Lines 489-502: the valid frames, by class.
base_stations_of(tracker_data) == SelectSeq(tracker_data, IsValidReference)

trackable_devices_of(tracker_data) == SelectSeq(tracker_data, IsValidOther)

\* Lines 505-523: the body of the loop over base_stations.
ProcessBaseStation(st, data, current_time, counter) ==
    IF ~data.is_valid THEN st
    ELSE
    LET serial == data.serial
        position == data.position
        has_widget == serial \in DOMAIN st.bs
        w1 == bs_add_sample(st.bs[serial], current_time, position)
        \* update_stats of a base station widget does nothing
        w2 == IF counter % plot_update_interval = 0 THEN bs_update_plot(w1) ELSE w1
    IN  [ st EXCEPT
            !.history = add_sample(st.history, serial, position),
            !.added = [@ EXCEPT ![serial] = Append(@, position)],
            !.bs = IF has_widget THEN [@ EXCEPT ![serial] = w2] ELSE @,
            !.fed = IF has_widget
                    THEN [@ EXCEPT ![serial] = Append(@, << current_time, position >>)]
                    ELSE @ ]

\* The body of the loop over trackable_devices with get_std_dev called
\* before add_sample.
ProcessTrackable_sigmafirst(st, data, current_time, counter) ==
    LET serial == data.serial
        position == data.position
        rotation == data.rotation
        throttle == counter % plot_update_interval = 0
        r == record_frame(st.total, st.lost, serial, data.is_valid)
        tw1 == IF serial \in DOMAIN st.tw /\ throttle
               THEN [st.tw EXCEPT ![serial] =
                        tw_update_loss_rate(@, get_loss_rate(r[1], r[2], serial))]
               ELSE st.tw
        st1 == [ st EXCEPT
                   !.total = r[1],
                   !.lost = r[2],
                   !.recorded = [@ EXCEPT ![serial] = Append(@, data.is_valid)],
                   !.tw = tw1 ]
        history == add_sample(st.history, serial, position)
        std_dev == get_std_dev(st.history, serial)
        plotted == /\ serial \in DOMAIN tw1
                   /\ tw1[serial].visible
                   /\ tw1[serial].is_enabled
        w1 == tw_add_sample(tw1[serial], current_time, position, rotation)
        w2 == IF throttle THEN tw_update_stats(tw_update_plot(w1), std_dev) ELSE w1
    IN  IF ~data.is_valid THEN st1
        ELSE [ st1 EXCEPT
                 !.history = history,
                 !.added = [@ EXCEPT ![serial] = Append(@, position)],
                 !.samples = csv_add_sample(@, current_time, serial, position,
                                            rotation, std_dev),
                 !.tw = IF plotted THEN [tw1 EXCEPT ![serial] = w2] ELSE tw1 ]

\* The body of the loop over trackable_devices with the test of lines 563-568
\* placed before add_sample: a sample is taken only for a widget that is
\* there, shown and enabled.
ProcessTrackable_gated(st, data, current_time, counter) ==
    LET serial == data.serial
        position == data.position
        rotation == data.rotation
        throttle == counter % plot_update_interval = 0
        r == record_frame(st.total, st.lost, serial, data.is_valid)
        tw1 == IF serial \in DOMAIN st.tw /\ throttle
               THEN [st.tw EXCEPT ![serial] =
                        tw_update_loss_rate(@, get_loss_rate(r[1], r[2], serial))]
               ELSE st.tw
        st1 == [ st EXCEPT
                   !.total = r[1],
                   !.lost = r[2],
                   !.recorded = [@ EXCEPT ![serial] = Append(@, data.is_valid)],
                   !.tw = tw1 ]
        history == add_sample(st.history, serial, position)
        std_dev == get_std_dev(history, serial)
        plotted == /\ serial \in DOMAIN tw1
                   /\ tw1[serial].visible
                   /\ tw1[serial].is_enabled
        w1 == tw_add_sample(tw1[serial], current_time, position, rotation)
        w2 == IF throttle THEN tw_update_stats(tw_update_plot(w1), std_dev) ELSE w1
    IN  IF ~data.is_valid \/ ~plotted THEN st1
        ELSE [ st1 EXCEPT
                 !.history = history,
                 !.added = [@ EXCEPT ![serial] = Append(@, position)],
                 !.samples = csv_add_sample(@, current_time, serial, position,
                                            rotation, std_dev),
                 !.tw = [tw1 EXCEPT ![serial] = w2] ]

\* Lines 526-576: the body of the loop over trackable_devices.
ProcessTrackable(st, data, current_time, counter) ==
    LET serial == data.serial
        position == data.position
        rotation == data.rotation
        throttle == counter % plot_update_interval = 0
        r == record_frame(st.total, st.lost, serial, data.is_valid)
        tw1 == IF serial \in DOMAIN st.tw /\ throttle
               THEN [st.tw EXCEPT ![serial] =
                        tw_update_loss_rate(@, get_loss_rate(r[1], r[2], serial))]
               ELSE st.tw
        st1 == [ st EXCEPT
                   !.total = r[1],
                   !.lost = r[2],
                   !.recorded = [@ EXCEPT ![serial] = Append(@, data.is_valid)],
                   !.tw = tw1 ]
        history == add_sample(st.history, serial, position)
        std_dev == get_std_dev(history, serial)
        plotted == /\ serial \in DOMAIN tw1
                   /\ tw1[serial].visible
                   /\ tw1[serial].is_enabled
        w1 == tw_add_sample(tw1[serial], current_time, position, rotation)
        w2 == IF throttle THEN tw_update_stats(tw_update_plot(w1), std_dev) ELSE w1
    IN  IF ~data.is_valid THEN st1
        ELSE [ st1 EXCEPT
                 !.history = history,
                 !.added = [@ EXCEPT ![serial] = Append(@, position)],
                 !.samples = csv_add_sample(@, current_time, serial, position,
                                            rotation, std_dev),
                 !.tw = IF plotted THEN [tw1 EXCEPT ![serial] = w2] ELSE tw1 ]

RECURSIVE ProcessBaseStations(_, _, _, _)
ProcessBaseStations(st, datas, current_time, counter) ==
    IF datas = << >> THEN st
    ELSE ProcessBaseStations(ProcessBaseStation(st, Head(datas), current_time, counter),
                             Tail(datas), current_time, counter)

RECURSIVE ProcessTrackables(_, _, _, _)
ProcessTrackables(st, datas, current_time, counter) ==
    IF datas = << >> THEN st
    ELSE ProcessTrackables(ProcessTrackable(st, Head(datas), current_time, counter),
                           Tail(datas), current_time, counter)

\* Lines 489-576: what one tick does with the frames it read.
ProcessFrames(st, tracker_data, current_time, counter) ==
    ProcessTrackables(
        ProcessBaseStations(st, base_stations_of(tracker_data), current_time, counter),
        trackable_devices_of(tracker_data), current_time, counter)

\* The frames of one tick as the runtime gave them, added to the log.
RECURSIVE LogFrames(_, _, _, _)
LogFrames(log, indices, serials, poses) ==
    IF indices = << >> THEN log
    ELSE LET i == Head(indices)
             m == poses[i].mDeviceToAbsoluteTracking
             frame == [ is_valid |-> poses[i].bPoseIsValid,
                        position |-> << m[1][4], m[2][4], m[3][4] >> ]
         IN  LogFrames([log EXCEPT ![serials[i]] = Append(@, frame)],
                       Tail(indices), serials, poses)

\* The status of every drift monitor, for the record of a reset.
StatusOf(bs) == [x \in DOMAIN bs |-> bs[x].status_label]

\* The runtime gains or loses devices while the program is connected, and
\* queues an activation or deactivation event for it.
HotPlug ==
    \E a \in AttachedSets \ {attached} :
        /\ is_initialized
        /\ hotplugs < MaxHotPlugs
        /\ hotplugs' = hotplugs + 1
        /\ attached' = a
        /\ events_pending' = TRUE
        /\ call' = [op |-> "ui"]
        /\ UNCHANGED << calcVars, calcLog, driftVars, monitorVars, buttonVars, runVars,
                        widgetVars, _samples, frames, now >>

\* _on_connect_clicked, connected: shutdown().  The session with the runtime
\* ends, and with it what the program can see of the runtime's devices.
Disconnect ==
    /\ connect_btn
    /\ is_initialized
    /\ is_initialized' = FALSE
    /\ attached' = {}
    /\ events_pending' = FALSE
    /\ start_btn' = FALSE
    /\ stop_btn' = FALSE
    /\ call' = [op |-> "ui"]
    /\ UNCHANGED << calcVars, calcLog, driftVars, _tracker_indices, _tracker_serials,
                    save_btn, connect_btn, runVars, widgetVars, hotplugs, _samples,
                    frames, now >>

\* _on_connect_clicked, not connected, and initialize() succeeds: the
\* session opens on the devices the runtime holds.
Connect ==
    /\ connect_btn
    /\ ~is_initialized
    /\ is_initialized' = TRUE
    /\ events_pending' = FALSE
    /\ \E a \in AttachedSets :
       LET found == discover_trackers(a)
           u == update_tracker_widgets(tracker_widgets, bs_widgets, device_list_items,
                                       found[2], TRUE)
       IN  /\ attached' = a
           /\ _tracker_indices' = found[1]
           /\ _tracker_serials' = found[2]
           /\ tracker_widgets' = u[1]
           /\ bs_widgets' = u[2]
           /\ device_list_items' = u[3]
    /\ fed' = NoLog
    /\ start_btn' = TRUE
    /\ call' = [op |-> "ui"]
    /\ UNCHANGED << calcVars, calcLog, stop_btn, save_btn, connect_btn, runVars,
                    hotplugs, _samples, frames, now >>

\* _on_connect_clicked, not connected, and initialize() fails: a warning.
ConnectFails ==
    /\ connect_btn
    /\ ~is_initialized
    /\ call' = [op |-> "ui"]
    /\ UNCHANGED << calcVars, calcLog, driftVars, windowVars, now >>

\* _on_device_list_changed: the user checks or unchecks a listed device.
DeviceListChanged ==
    \E x \in DOMAIN device_list_items :
        LET items == [device_list_items EXCEPT ![x] = ~@]
            u == update_tracker_widgets(tracker_widgets, bs_widgets, items,
                                        _tracker_serials, FALSE)
        IN  /\ tracker_widgets' = u[1]
            /\ bs_widgets' = u[2]
            /\ device_list_items' = u[3]
            /\ call' = [op |-> "ui"]
            /\ UNCHANGED << calcVars, calcLog, fed, monitorVars, buttonVars, runVars,
                            envVars, _samples, frames, now >>

\* _on_start_clicked without line 419: the Connect button stays enabled.
StartClicked_connectable ==
    /\ start_btn
    /\ is_measuring' = TRUE
    /\ start_btn' = FALSE
    /\ stop_btn' = TRUE
    /\ save_btn' = FALSE
    /\ _history' = clear_all_devices[1]
    /\ _total_frames' = clear_all_devices[2]
    /\ _lost_frames' = clear_all_devices[3]
    /\ tracker_widgets' = [x \in DOMAIN tracker_widgets |-> tw_clear_data(tracker_widgets[x])]
    /\ bs_widgets' = [x \in DOMAIN bs_widgets |-> bs_clear_data(bs_widgets[x])]
    /\ timer_active' = TRUE
    /\ added' = NoLog
    /\ recorded' = NoLog
    /\ fed' = NoLog
    /\ frames' = NoLog
    /\ call' = [op |-> "start", was |-> StatusOf(bs_widgets)]
    /\ UNCHANGED << monitorVars, plot_update_counter, sample_count_label,
                    device_list_items, envVars, _samples, now, connect_btn >>

\* _on_start_clicked with csv_exporter.clear() among its clears.
StartClicked_clearexport ==
    /\ start_btn
    /\ is_measuring' = TRUE
    /\ start_btn' = FALSE
    /\ stop_btn' = TRUE
    /\ save_btn' = FALSE
    /\ connect_btn' = FALSE
    /\ _history' = clear_all_devices[1]
    /\ _total_frames' = clear_all_devices[2]
    /\ _lost_frames' = clear_all_devices[3]
    /\ tracker_widgets' = [x \in DOMAIN tracker_widgets |-> tw_clear_data(tracker_widgets[x])]
    /\ bs_widgets' = [x \in DOMAIN bs_widgets |-> bs_clear_data(bs_widgets[x])]
    /\ _samples' = csv_clear
    /\ timer_active' = TRUE
    /\ added' = NoLog
    /\ recorded' = NoLog
    /\ fed' = NoLog
    /\ frames' = NoLog
    /\ call' = [op |-> "start", was |-> StatusOf(bs_widgets)]
    /\ UNCHANGED << monitorVars, plot_update_counter, sample_count_label,
                    device_list_items, envVars, now >>

\* _on_start_clicked
StartClicked ==
    /\ start_btn
    /\ is_measuring' = TRUE
    /\ start_btn' = FALSE
    /\ stop_btn' = TRUE
    /\ save_btn' = FALSE
    /\ connect_btn' = FALSE
    /\ _history' = clear_all_devices[1]
    /\ _total_frames' = clear_all_devices[2]
    /\ _lost_frames' = clear_all_devices[3]
    /\ tracker_widgets' = [x \in DOMAIN tracker_widgets |-> tw_clear_data(tracker_widgets[x])]
    /\ bs_widgets' = [x \in DOMAIN bs_widgets |-> bs_clear_data(bs_widgets[x])]
    /\ timer_active' = TRUE
    /\ added' = NoLog
    /\ recorded' = NoLog
    /\ fed' = NoLog
    /\ frames' = NoLog
    /\ call' = [op |-> "start", was |-> StatusOf(bs_widgets)]
    /\ UNCHANGED << monitorVars, plot_update_counter, sample_count_label,
                    device_list_items, envVars, _samples, now >>

\* _on_stop_clicked without line 437: the Stop button stays enabled.
StopClicked_enabled ==
    /\ stop_btn
    /\ is_measuring' = FALSE
    /\ timer_active' = FALSE
    /\ start_btn' = TRUE
    /\ save_btn' = (csv_get_sample_count(_samples) > 0)
    /\ connect_btn' = TRUE
    /\ call' = [op |-> "ui"]
    /\ UNCHANGED << calcVars, calcLog, driftVars, monitorVars, plot_update_counter,
                    sample_count_label, widgetVars, envVars, _samples, frames, now,
                    stop_btn >>

\* _on_stop_clicked
StopClicked ==
    /\ stop_btn
    /\ is_measuring' = FALSE
    /\ timer_active' = FALSE
    /\ start_btn' = TRUE
    /\ stop_btn' = FALSE
    /\ save_btn' = (csv_get_sample_count(_samples) > 0)
    /\ connect_btn' = TRUE
    /\ call' = [op |-> "ui"]
    /\ UNCHANGED << calcVars, calcLog, driftVars, monitorVars, plot_update_counter,
                    sample_count_label, widgetVars, envVars, _samples, frames, now >>

\* _on_save_clicked: with samples, and a file name chosen in the dialog (the
\* user may cancel it), the file is written; the window's state stays as it
\* is either way.
SaveClicked ==
    /\ save_btn
    /\ \E chosen \in BOOLEAN :
          call' = IF csv_get_sample_count(_samples) = 0 \/ ~chosen
                  THEN [op |-> "ui"]
                  ELSE [op |-> "save", file |-> csv_save(_samples)]
    /\ UNCHANGED << calcVars, calcLog, driftVars, windowVars, now >>

\* _on_clear_clicked without line 472: the Save button stays as it is.
ClearClicked_savable ==
    /\ _history' = clear_all_devices[1]
    /\ _total_frames' = clear_all_devices[2]
    /\ _lost_frames' = clear_all_devices[3]
    /\ _samples' = csv_clear
    /\ tracker_widgets' = [x \in DOMAIN tracker_widgets |-> tw_clear_data(tracker_widgets[x])]
    /\ bs_widgets' = [x \in DOMAIN bs_widgets |-> bs_clear_data(bs_widgets[x])]
    /\ sample_count_label' = 0
    /\ save_btn' = save_btn
    /\ added' = NoLog
    /\ recorded' = NoLog
    /\ fed' = NoLog
    /\ frames' = NoLog
    /\ call' = [op |-> "clear", was |-> StatusOf(bs_widgets)]
    /\ UNCHANGED << monitorVars, start_btn, stop_btn, connect_btn, is_measuring,
                    timer_active, plot_update_counter, device_list_items, envVars, now >>

\* _on_clear_clicked
ClearClicked ==
    /\ _history' = clear_all_devices[1]
    /\ _total_frames' = clear_all_devices[2]
    /\ _lost_frames' = clear_all_devices[3]
    /\ _samples' = csv_clear
    /\ tracker_widgets' = [x \in DOMAIN tracker_widgets |-> tw_clear_data(tracker_widgets[x])]
    /\ bs_widgets' = [x \in DOMAIN bs_widgets |-> bs_clear_data(bs_widgets[x])]
    /\ sample_count_label' = 0
    /\ save_btn' = FALSE
    /\ added' = NoLog
    /\ recorded' = NoLog
    /\ fed' = NoLog
    /\ frames' = NoLog
    /\ call' = [op |-> "clear", was |-> StatusOf(bs_widgets)]
    /\ UNCHANGED << monitorVars, start_btn, stop_btn, connect_btn, is_measuring,
                    timer_active, plot_update_counter, device_list_items, envVars, now >>

\* _on_timer_tick, past the test of is_initialized.
TimerTickBody ==
    LET \* poll_events(): with an event, _discover_trackers() and then
        \* _update_tracker_widgets(clear_all=False)
        found == IF events_pending THEN discover_trackers(attached)
                 ELSE << _tracker_indices, _tracker_serials >>
        u == IF events_pending
             THEN update_tracker_widgets(tracker_widgets, bs_widgets,
                                         device_list_items, found[2], FALSE)
             ELSE << tracker_widgets, bs_widgets, device_list_items >>
        current_time == now + 1
    IN  \E poses \in [DOMAIN found[2] -> Poses] :
          LET tracker_data ==
                  get_all_tracker_positions(is_initialized, found[1], found[2],
                                            attached, poses)
              st == ProcessFrames([TickState EXCEPT !.tw = u[1], !.bs = u[2]],
                                  tracker_data, current_time, plot_update_counter)
          IN  /\ _tracker_indices' = found[1]
              /\ _tracker_serials' = found[2]
              /\ device_list_items' = u[3]
              /\ _history' = st.history
              /\ _total_frames' = st.total
              /\ _lost_frames' = st.lost
              /\ bs_widgets' = st.bs
              /\ tracker_widgets' = st.tw
              /\ _samples' = st.samples
              /\ added' = st.added
              /\ recorded' = st.recorded
              /\ fed' = st.fed
              /\ frames' = LogFrames(frames, found[1], found[2], poses)
              /\ plot_update_counter' = plot_update_counter + 1
              /\ sample_count_label' =
                     IF (plot_update_counter + 1) % sample_rate = 0
                     THEN csv_get_sample_count(st.samples)
                     ELSE sample_count_label
              /\ now' = current_time
              /\ events_pending' = FALSE
              /\ call' = [op |-> "tick", tracker_data |-> tracker_data]

\* _on_timer_tick: the timer fires.  With the monitor shut down the handler
\* returns at once.
TimerTick ==
    /\ timer_active
    /\ plot_update_counter < MaxTicks
    /\ IF ~is_initialized
       THEN /\ call' = [op |-> "tick", tracker_data |-> << >>]
            /\ UNCHANGED << calcVars, calcLog, driftVars, _tracker_indices,
                            _tracker_serials, widgetVars, _samples, frames,
                            plot_update_counter, sample_count_label, now,
                            events_pending >>
       ELSE TimerTickBody
    /\ UNCHANGED << is_initialized, buttonVars, is_measuring, timer_active, attached,
                    hotplugs >>

Init ==
    /\ _history = << >>
    /\ _total_frames = << >>
    /\ _lost_frames = << >>
    /\ call = [op |-> "init"]
    /\ added = NoLog
    /\ recorded = NoLog
    /\ bs_widgets = << >>
    /\ fed = NoLog
    /\ now = 0
    /\ InitWindow

Next ==
    \/ HotPlug
    \/ Connect
    \/ ConnectFails
    \/ Disconnect
    \/ DeviceListChanged
    \/ StartClicked
    \/ StopClicked
    \/ SaveClicked
    \/ ClearClicked
    \/ TimerTick

Spec == Init /\ [][Next]_vars

(***************************************************************************)
(* What the claims read.                                                   *)
(***************************************************************************)
\* The window of a device: empty for a device without one.
Window(history, s) == IF s \in DOMAIN history THEN history[s] ELSE << >>

\* The counters of a device: 0 for a device without them.
Total(total, s) == IF s \in DOMAIN total THEN total[s] ELSE 0

Lost(lost, s) == IF s \in DOMAIN lost THEN lost[s] ELSE 0

\* The number of invalid frames among the flags.
RECURSIVE CountInvalid(_)
CountInvalid(flags) ==
    IF flags = << >> THEN 0
    ELSE (IF Head(flags) THEN 0 ELSE 1) + CountInvalid(Tail(flags))

\* The last m entries of a sequence.
LastN(seq, m) == SubSeq(seq, Len(seq) - m + 1, Len(seq))

\* C2: after any sequence of record_frame and clear calls, get_loss_rate of a
\* device is lost/total of the frames recorded for it since its last clear
\* when there are any, 0.0 when there are none (total 0, or the device was
\* never seen), and it lies in [0, 1].
C2_LossRate ==
    \A s \in Serials :
        LET n == Len(recorded[s])
            bad == CountInvalid(recorded[s])
            r == get_loss_rate(_total_frames, _lost_frames, s)
        IN  /\ n > 0 => r.den > 0 /\ r.num * n = bad * r.den
            /\ n > 0 => r.num * Total(_total_frames, s) = Lost(_lost_frames, s) * r.den
            /\ n = 0 => r = Zero
            /\ 0 <= r.num /\ r.num <= r.den

\* C2: a device with 1 invalid frame out of 3 has loss rate 1/3, while another
\* device has been cleared (its total is 0) and a third was never seen.
C2_Witness ==
    \E s, c \in Serials :
        /\ Len(recorded[s]) = 3 /\ CountInvalid(recorded[s]) = 1
        /\ get_loss_rate(_total_frames, _lost_frames, s) = [num |-> 1, den |-> 3]
        /\ c \in DOMAIN _total_frames /\ _total_frames[c] = 0
        /\ SerialC \notin DOMAIN _total_frames

\* C3: in every state 0 <= lost <= total for every device; a record_frame
\* adds exactly 1 to the device's total and exactly 1 to its lost iff the
\* frame is invalid; no other operation than clear lowers a counter.
C3_Counters ==
    [][ \A s \in Serials :
          LET t == Total(_total_frames, s)
              l == Lost(_lost_frames, s)
              tn == Total(_total_frames', s)
              ln == Lost(_lost_frames', s)
          IN  /\ 0 <= ln /\ ln <= tn
              /\ (call'.op = "record_frame" /\ call'.serial = s) =>
                    /\ tn = t + 1
                    /\ ln = l + (IF call'.is_valid THEN 0 ELSE 1)
              /\ (call'.op = "record_frame" /\ call'.serial # s) =>
                    tn = t /\ ln = l
              /\ call'.op \notin {"clear", "clear_all"} => tn >= t /\ ln >= l
      ]_vars

\* C3: an invalid frame has just been recorded and made the counters 3 and 2.
C3_Witness ==
    /\ call.op = "record_frame" /\ ~call.is_valid
    /\ Total(_total_frames, call.serial) = 3
    /\ Lost(_lost_frames, call.serial) = 2

\* C4: the window of a device never holds more than window_size samples, and
\* it is the most recent min(window_size, k) of the k samples added since the
\* device's last clear, in arrival order: a full window has lost its oldest.
C4_Window ==
    \A s \in Serials :
        LET w == Window(_history, s)
            k == Len(added[s])
        IN  /\ Len(w) <= WindowSize
            /\ get_sample_count(_history, s) = Min(WindowSize, k)
            /\ w = LastN(added[s], Min(WindowSize, k))

\* C4: a sample has just been added to a full window, and the sample that
\* left it differs from the one that is now the oldest.
C4_Witness ==
    /\ call.op = "add_sample"
    /\ Len(added[call.serial]) = WindowSize + 1
    /\ Len(_history[call.serial]) = WindowSize
    /\ added[call.serial][1] # _history[call.serial][1]
    /\ _history[call.serial][WindowSize] = call.position

\* C10: for a window of fewer than 2 samples (a device never seen, an empty
\* window, a single sample) get_std_dev is exactly (0, 0, 0) and
\* get_distance_std exactly 0.
C10_FewSamples ==
    \A s \in Serials :
        Len(Window(_history, s)) < 2 =>
            /\ get_std_dev(_history, s) = << Zero, Zero, Zero >>
            /\ get_distance_std(_history, s) = Zero

\* C10: the three cases at once: a device never seen, a device whose window
\* was emptied by clear, a device with a single sample.
C10_Witness ==
    /\ SerialC \notin DOMAIN _history
    /\ \E s, e \in DOMAIN _history :
          /\ Len(_history[s]) = 1
          /\ Len(_history[e]) = 0

Last(seq) == seq[Len(seq)]

\* C6: the first add_sample of a monitor in CALIBRATING takes the sample's
\* position as baseline and its time stamp as time origin, makes the state
\* STABLE, and its history is the single pair (relative time 0, displacement 0).
C6_FirstSample ==
    [][ \A s \in DOMAIN bs_widgets :
          ( /\ call'.op = "bs_add_sample"
            /\ call'.serial = s
            /\ bs_widgets[s].status_label = STATUS_CALIBRATING ) =>
              LET w == bs_widgets'[s]
              IN  /\ w.initial_position = Some(call'.position)
                  /\ w.start_time = Some(call'.timestamp)
                  /\ w.status_label = STATUS_STABLE
                  /\ w.time_data = << 0 >>
                  /\ w.drift_data = << 0 >>
      ]_vars

\* C6: a first sample, away from the origin and later than time 0, has just
\* been added and the monitor is STABLE with the history (0, 0).
C6_Witness ==
    /\ call.op = "bs_add_sample"
    /\ call.timestamp > 0
    /\ call.position = <<0, 8, 0>>
    /\ Len(fed[call.serial]) = 1
    /\ bs_widgets[call.serial].status_label = STATUS_STABLE
    /\ bs_widgets[call.serial].drift_data = << 0 >>

C8_Baseline ==
    [][ \A s \in DOMAIN bs_widgets :
          LET w == bs_widgets[s]
              wn == bs_widgets'[s]
          IN  /\ ( /\ w.initial_position # None
                   /\ ~(call'.op = "bs_clear_data" /\ call'.serial = s) ) =>
                     /\ wn.initial_position = w.initial_position
                     /\ wn.start_time = w.start_time
              /\ fed'[s] # << >> =>
                     /\ wn.initial_position = Some(fed'[s][1][2])
                     /\ wn.start_time = Some(fed'[s][1][1])
      ]_vars

\* C8: the third sample since the reset is later and elsewhere (beyond the
\* threshold), and baseline and origin are still the first sample's.
C8_Witness ==
    /\ call.op = "bs_add_sample"
    /\ Len(fed[call.serial]) = 3
    /\ call.timestamp > fed[call.serial][1][1]
    /\ Norm(Sub(call.position, fed[call.serial][1][2])) > drift_threshold
    /\ bs_widgets[call.serial].initial_position = Some(fed[call.serial][1][2])
    /\ bs_widgets[call.serial].start_time = Some(fed[call.serial][1][1])

\* The frames of a log that are valid / the positions of a log's frames.
IsValidFrame(frame) == frame.is_valid

PositionsOf(log) == [k \in 1..Len(log) |-> log[k].position]

ValidPositions(log) == PositionsOf(SelectSeq(log, IsValidFrame))

InvalidFrames(log) == Len(log) - Len(SelectSeq(log, IsValidFrame))

\* C1 as the specification states it: after any sequence of ticks, the total
\* counter of every device (tracker, controller or reference) is the number
\* of frames the runtime gave for it since the last clear, valid or not, and
\* its lost counter the number of those that were invalid.
C1_Original ==
    \A s \in Serials :
        /\ Total(_total_frames, s) = Len(frames[s])
        /\ Lost(_lost_frames, s) = InvalidFrames(frames[s])

\* C5: through the main window's ticks, the stats window of a device holds
\* positions of valid frames only: it is the most recent min(window_size, v)
\* of the positions of the v valid frames the device had since the last
\* clear, its sample count is min(window_size, v), and a tick whose frame for
\* the device is invalid leaves the device's window as it was.
C5_ValidOnly ==
    [][ \A s \in Serials :
          LET valid == ValidPositions(frames'[s])
              m == Min(WindowSize, Len(valid))
          IN  /\ get_sample_count(_history', s) = m
              /\ Window(_history', s) = LastN(valid, m)
              /\ ( /\ Len(frames'[s]) = Len(frames[s]) + 1
                   /\ ~Last(frames'[s]).is_valid ) =>
                     Window(_history', s) = Window(_history, s)
      ]_vars

\* C5: a device had a valid frame, an invalid one and a valid one elsewhere;
\* the invalid frame has just left the window with the first position alone,
\* and now the window holds the two valid positions.
C5_Witness ==
    \E s \in Serials :
        /\ Len(frames[s]) = 3
        /\ frames[s][1].is_valid /\ ~frames[s][2].is_valid /\ frames[s][3].is_valid
        /\ frames[s][1].position # frames[s][3].position
        /\ frames[s][2].position # << 0, 0, 0 >>
        /\ _history[s] = << frames[s][1].position, frames[s][3].position >>
        /\ get_sample_count(_history, s) = 2

\* C9: Start Measurement and Clear Data reset every drift monitor, whatever
\* its state: the baseline and the time origin are unset, the history is
\* empty and the state is CALIBRATING; and the sample a monitor in
\* CALIBRATING is given next is its baseline, with state STABLE and
\* displacement 0.
C9_Reset ==
    [][ /\ call'.op \in {"start", "clear"} =>
              /\ DOMAIN bs_widgets' = DOMAIN bs_widgets
              /\ \A s \in DOMAIN bs_widgets' :
                    LET w == bs_widgets'[s]
                    IN  /\ w.initial_position = None
                        /\ w.start_time = None
                        /\ w.time_data = << >>
                        /\ w.drift_data = << >>
                        /\ w.status_label = STATUS_CALIBRATING
        /\ \A s \in DOMAIN bs_widgets \cap DOMAIN bs_widgets' :
              ( /\ bs_widgets[s].status_label = STATUS_CALIBRATING
                /\ Len(fed'[s]) = Len(fed[s]) + 1 ) =>
                  LET w == bs_widgets'[s]
                  IN  /\ w.initial_position = Some(Last(fed'[s])[2])
                      /\ w.start_time = Some(Last(fed'[s])[1])
                      /\ w.status_label = STATUS_STABLE
                      /\ w.drift_data = << 0 >>
      ]_vars

\* C9: Start Measurement or Clear Data has just reset a monitor that was
\* DISPLACED: it is in CALIBRATING, without baseline and history.
C9_Witness ==
    \E s \in DOMAIN bs_widgets :
        /\ call.op \in {"start", "clear"}
        /\ s \in DOMAIN call.was
        /\ call.was[s] = STATUS_MOVEMENT
        /\ bs_widgets[s].status_label = STATUS_CALIBRATING
        /\ bs_widgets[s].initial_position = None
        /\ bs_widgets[s].drift_data = << >>

\* The sum over the samples of (n*x - sum of xs)^2: n^2 times the sum of the
\* squared deviations from the mean.
ScaledDeviationsSq(xs) ==
    LET n == Len(xs)
        S == SumSeq(xs)
    IN  SumSeq([k \in 1..n |-> (n * xs[k] - S) * (n * xs[k] - S)])

\* v is the population variance of xs: the mean of the squared deviations
\* from the mean, sum((x - mean)^2) / n.
IsPopulationVariance(v, xs) ==
    LET n == Len(xs)
    IN  /\ v.den > 0
        /\ v.num * n * n * n = v.den * ScaledDeviationsSq(xs)

\* Five samples 1 mm apart on z, x and y constant.
FiveOnZ == [k \in 1..5 |-> << 7, 3, k - 1 >>]

\* C11: for a window of n >= 2 samples, get_std_dev gives for each axis the
\* population standard deviation (its square is the sum of the squared
\* deviations divided by n, not n - 1) of that axis of exactly the samples now
\* in the window, the last min(window_size, k) of the k added since the last
\* clear; z values 0..4 with constant x and y give variance 2 on z, 0 on x, y.
C11_Population ==
    /\ \A s \in Serials :
          LET k == Len(added[s])
              data == LastN(added[s], Min(WindowSize, k))
              std == get_std_dev(_history, s)
          IN  Len(data) >= 2 =>
                \A i \in 1..3 : IsPopulationVariance(std[i], Axis(data, i))
    /\ get_std_dev([s \in {SerialT} |-> FiveOnZ], SerialT)
          = << Zero, Zero, [num |-> 2, den |-> 1] >>

\* C11: one sample more than the window holds was added; the oldest, which
\* differs from the others on x, has left, and the deviation is that of the
\* samples that stay: not 0 on y, where they differ, and 0 on x and z.
C11_Witness ==
    \E s \in Serials :
        /\ Len(added[s]) = WindowSize + 1
        /\ added[s][1] = << 3, 4, 0 >>
        /\ Axis(_history[s], 2) = [k \in 1..WindowSize |-> IF k = 1 THEN 0 ELSE 4]
        /\ Axis(_history[s], 1) = [k \in 1..WindowSize |-> 0]
        /\ get_std_dev(_history, s)[1] = Zero
        /\ get_std_dev(_history, s)[2] # Zero
        /\ get_std_dev(_history, s)[3] = Zero

\* A device id no operation is ever given.
SerialUnknown == "[Tracker] LHR-9"

\* C12: for every device the calculator has no entry for (before any frame
\* every device is such, as after clear()), every query has a value, the
\* neutral one: loss rate 0.0, standard deviation (0, 0, 0), distance
\* deviation 0.0, sample count 0; and a drift monitor that was given no sample
\* is CALIBRATING with empty history and no baseline.
C12_Defaults ==
    /\ \A s \in Serials \cup {SerialUnknown} :
          /\ s \notin DOMAIN _total_frames =>
                get_loss_rate(_total_frames, _lost_frames, s) = Zero
          /\ s \notin DOMAIN _history =>
                /\ get_std_dev(_history, s) = << Zero, Zero, Zero >>
                /\ get_distance_std(_history, s) = Zero
                /\ get_sample_count(_history, s) = 0
    /\ \A s \in DOMAIN bs_widgets :
          fed[s] = << >> =>
             /\ bs_widgets[s].status_label = STATUS_CALIBRATING
             /\ bs_widgets[s].time_data = << >>
             /\ bs_widgets[s].drift_data = << >>
             /\ bs_widgets[s].initial_position = None

\* C12: the session is connected with a base station, its monitor is built,
\* and no tick has run: the calculator has no entry at all and the monitor
\* is CALIBRATING.
C12_Witness ==
    /\ is_initialized
    /\ now = 0
    /\ _history = << >> /\ _total_frames = << >>
    /\ SerialB \in DOMAIN bs_widgets
    /\ fed[SerialB] = << >>
    /\ bs_widgets[SerialB].status_label = STATUS_CALIBRATING
    /\ get_sample_count(_history, SerialB) = 0
    /\ get_loss_rate(_total_frames, _lost_frames, SerialB) = Zero

\* C13: the poll of a tick gives one decoded sample for each known device, in
\* the order of the device indices, with the validity of the device's frame:
\* position (0, 0, 0), rotation (0, 0, 0) and is_valid false for a frame that
\* is not valid, the translation column of the frame's matrix and is_valid
\* true for one that is.
C13_Decode ==
    [][ (call'.op = "tick" /\ is_initialized) =>
          LET td == call'.tracker_data
          IN  /\ Len(td) = Len(_tracker_indices')
              /\ Len(td) = Cardinality(DOMAIN _tracker_serials')
              /\ \A k \in 1..Len(td) :
                    LET i == _tracker_indices'[k]
                        frame == Last(frames'[_tracker_serials'[i]])
                    IN  /\ td[k].device_index = i
                        /\ td[k].serial = _tracker_serials'[i]
                        /\ Len(frames'[td[k].serial]) = Len(frames[td[k].serial]) + 1
                        /\ td[k].is_valid = frame.is_valid
                        /\ frame.is_valid => td[k].position = frame.position
                        /\ ~frame.is_valid =>
                              /\ td[k].position = << 0, 0, 0 >>
                              /\ td[k].rotation = << 0, 0, 0 >>
      ]_vars

\* C13: the last tick polled a device whose frame was not valid, with a
\* matrix that is turned and away from the origin, and the sample is all
\* zeros with is_valid false; the tick before polled it valid, away from the
\* origin.
C13_Witness ==
    /\ call.op = "tick"
    /\ Len(call.tracker_data) = 1
    /\ LET d == call.tracker_data[1]
           log == frames[d.serial]
       IN  /\ ~d.is_valid
           /\ d.position = << 0, 0, 0 >> /\ d.rotation = << 0, 0, 0 >>
           /\ Len(log) = 2
           /\ Last(log).position = << 0, 8, 0 >>
           /\ log[1].is_valid
           /\ _history[d.serial] = << << 0, 8, 0 >> >>

IsValidData(data) == data.is_valid

\* C14 as the specification states it: a tick appends to the export buffer
\* one record for each valid sample it polled, whatever the class of the
\* device, in the order of the poll, with the tick's time stamp and the
\* sample's device id, position and rotation, and nothing for a sample that
\* is not valid.
C14_Original ==
    [][ (call'.op = "tick" /\ is_initialized) =>
          LET valid == SelectSeq(call'.tracker_data, IsValidData)
              n == Len(_samples)
          IN  /\ Len(_samples') = n + Len(valid)
              /\ SubSeq(_samples', 1, n) = _samples
              /\ \A k \in 1..Len(valid) :
                    /\ n + k <= Len(_samples')
                    /\ LET row == _samples'[n + k]
                       IN  /\ row.timestamp = now'
                           /\ row.serial = valid[k].serial
                           /\ << row.x, row.y, row.z >> = valid[k].position
                           /\ << row.rot_pitch, row.rot_yaw, row.rot_roll >>
                                 = valid[k].rotation
      ]_vars

\* The text shows, with six decimals, the fixed-point value v exactly.
ShowsValue(text, v) ==
    text.decimals = 6 /\ text.millionths = 1000 * v

\* The text shows, with six decimals, the millionth nearest to the standard
\* deviation whose square is var: |text - 1000 * sqrt(var)| <= 1/2.
ShowsSigma(text, var) ==
    LET r == text.millionths
    IN  /\ text.decimals = 6
        /\ r >= 0
        /\ var.den > 0
        /\ r > 0 => (2 * r - 1) * (2 * r - 1) * var.den <= 4000000 * var.num
        /\ 4000000 * var.num <= (2 * r + 1) * (2 * r + 1) * var.den

\* A sample whose sigma z is that of five samples 1 mm apart on z, the
\* square root of 2 mm: 0.001414 m.
SampleFiveOnZ ==
    [ timestamp |-> 1, serial |-> SerialT, x |-> 7, y |-> 3, z |-> 4,
      rot_pitch |-> 0, rot_yaw |-> 0, rot_roll |-> 0,
      sigma_x |-> Zero, sigma_y |-> Zero, sigma_z |-> np_var(Axis(FiveOnZ, 3)) ]

\* C15: the file that save writes is the header row and then one row for
\* each sample of the buffer, in the buffer's order, each of 11 fields: time
\* stamp, device serial, x, y, z, pitch, yaw, roll, sigma x, sigma y,
\* sigma z, every number with six decimals (a deviation of the square root
\* of 2 mm is written 0.001414).
C15_Save ==
    [][ call'.op = "save" =>
          LET file == call'.file
          IN  /\ Len(file) = Len(_samples) + 1
              /\ file[1] = << "Timestamp", "Device Serial", "Pos X", "Pos Y", "Pos Z",
                              "Rot Pitch", "Rot Yaw", "Rot Roll",
                              "Sigma X", "Sigma Y", "Sigma Z" >>
              /\ \A k \in 1..Len(_samples) :
                    LET row == file[k + 1]
                        sample == _samples[k]
                    IN  /\ Len(row) = 11
                        /\ ShowsValue(row[1], 1000 * sample.timestamp)
                        /\ row[2] = sample.serial
                        /\ ShowsValue(row[3], sample.x)
                        /\ ShowsValue(row[4], sample.y)
                        /\ ShowsValue(row[5], sample.z)
                        /\ ShowsValue(row[6], sample.rot_pitch)
                        /\ ShowsValue(row[7], sample.rot_yaw)
                        /\ ShowsValue(row[8], sample.rot_roll)
                        /\ ShowsSigma(row[9], sample.sigma_x)
                        /\ ShowsSigma(row[10], sample.sigma_y)
                        /\ ShowsSigma(row[11], sample.sigma_z)
              /\ csv_row(SampleFiveOnZ)[11] = [decimals |-> 6, millionths |-> 1414]
      ]_vars

\* C15: a file of the header and three rows has just been written; the rows
\* are in the order of their time stamps, the second sample is turned by 90
\* degrees and 0.008 m from the first, and its row shows the deviation of
\* two samples 0.008 m apart, 0.004000, on y.
C15_Witness ==
    /\ call.op = "save"
    /\ Len(call.file) = 4
    /\ \A k \in 2..4 : call.file[k][1].millionths = (k - 1) * 1000000
    /\ call.file[2][4].millionths = 0
    /\ call.file[3][4].millionths = 8000
    /\ call.file[3][8].millionths = 90000000
    /\ call.file[3][10].millionths = 4000
    /\ call.file[3][9].millionths = 0

\* Every query of the calculator gives the neutral value for the device.
ReportsNothing(history, total, lost, s) ==
    /\ get_sample_count(history, s) = 0
    /\ get_loss_rate(total, lost, s) = Zero
    /\ get_std_dev(history, s) = << Zero, Zero, Zero >>

\* C16: clear(device) leaves the device with an empty window and the counters
\* (0, 0); clear() leaves no device with a window or counters; after either
\* the devices cleared report sample count 0, loss rate 0.0 and deviation
\* (0, 0, 0), and the next frame is a first observation: the sample added
\* next is alone in the window, the frame recorded next makes the total 1.
C16_Clear ==
    [][ /\ call'.op = "clear" =>
              LET s == call'.serial
              IN  /\ Window(_history', s) = << >>
                  /\ Total(_total_frames', s) = 0
                  /\ Lost(_lost_frames', s) = 0
                  /\ ReportsNothing(_history', _total_frames', _lost_frames', s)
        /\ call'.op = "clear_all" =>
              /\ DOMAIN _history' = {}
              /\ DOMAIN _total_frames' = {}
              /\ DOMAIN _lost_frames' = {}
              /\ \A s \in Serials :
                    ReportsNothing(_history', _total_frames', _lost_frames', s)
        /\ \A s \in Serials :
              /\ (call'.op = "add_sample" /\ call'.serial = s /\ added[s] = << >>) =>
                    _history'[s] = << call'.position >>
              /\ (call'.op = "record_frame" /\ call'.serial = s /\ recorded[s] = << >>) =>
                    /\ _total_frames'[s] = 1
                    /\ _lost_frames'[s] = IF call'.is_valid THEN 0 ELSE 1
      ]_vars

\* C16: clear(device) has just been called for a device with a window of 2
\* samples, 2 frames recorded and 1 of them lost, and the device reports
\* nothing.
C16_Witness ==
    /\ call.op = "clear"
    /\ call.serial \in Serials
    /\ call.had[call.serial] = << 2, 2, 1 >>
    /\ call.serial \in DOMAIN _history
    /\ _history[call.serial] = << >>
    /\ _total_frames[call.serial] = 0 /\ _lost_frames[call.serial] = 0
    /\ ReportsNothing(_history, _total_frames, _lost_frames, call.serial)

\* C17 as the specification states it: add_sample(d), record_frame(d) and
\* clear(d), for a device id d that is any string, leave the window and the
\* total and lost counters of every other device e as they were.
C17_Original ==
    [][ call'.op \in {"add_sample", "record_frame", "clear"} =>
          \A e \in Serials \ {call'.serial} :
              /\ Window(_history', e) = Window(_history, e)
              /\ Total(_total_frames', e) = Total(_total_frames, e)
              /\ Lost(_lost_frames', e) = Lost(_lost_frames, e)
      ]_vars

\* C18: the comparison with the threshold is strict. An add_sample to a
\* monitor in STABLE leaves it STABLE when the sample's distance from the
\* baseline is less than or equal to the threshold, and makes it DISPLACED
\* exactly when the distance is greater than the threshold.
C18_Strict ==
    [][ \A s \in DOMAIN bs_widgets :
          ( /\ call'.op = "bs_add_sample"
            /\ call'.serial = s
            /\ bs_widgets[s].status_label = STATUS_STABLE ) =>
              LET distance ==
                      Norm(Sub(call'.position, bs_widgets[s].initial_position[1]))
              IN  /\ distance <= drift_threshold =>
                        bs_widgets'[s].status_label = STATUS_STABLE
                  /\ bs_widgets'[s].status_label = STATUS_MOVEMENT <=>
                        distance > drift_threshold
      ]_vars

\* C18: the baseline is the origin and the second sample is at (3, 4, 0),
\* at a distance of exactly the threshold: the monitor is still STABLE.
C18_Witness ==
    /\ call.op = "bs_add_sample"
    /\ Len(fed[call.serial]) = 2
    /\ fed[call.serial][1][2] = <<0, 0, 0>>
    /\ call.position = <<3, 4, 0>>
    /\ Norm(call.position) = drift_threshold
    /\ Last(bs_widgets[call.serial].drift_data) = drift_threshold * 1000
    /\ bs_widgets[call.serial].status_label = STATUS_STABLE

\* The pairs (relative time, displacement) of the samples of a log: the time
\* stamp less the first sample's, and the distance from the first sample's
\* position in thousandths of a millimetre.
RelativeTimes(log) == [k \in 1..Len(log) |-> log[k][1] - log[1][1]]

Displacements(log) == [k \in 1..Len(log) |-> Norm(Sub(log[k][2], log[1][2])) * 1000]

\* C19: the time series and the displacement series of a monitor have the
\* same length, the smaller of the maximum retained count and the number of
\* samples since the monitor's last reset, and they hold, in order, the
\* pairs (time stamp less time origin, displacement) of the latest of those
\* samples: each add_sample appends one pair and the oldest pair leaves
\* both series first.
C19_Series ==
    \A s \in DOMAIN bs_widgets :
        LET w == bs_widgets[s]
            n == Min(MaxDriftSamples, Len(fed[s]))
        IN  /\ Len(w.time_data) = Len(w.drift_data)
            /\ Len(w.time_data) = n
            /\ w.time_data = LastN(RelativeTimes(fed[s]), n)
            /\ w.drift_data = LastN(Displacements(fed[s]), n)

\* C19: one sample more than the series retain has been added since the
\* reset; the first pair (0, 0) has left both series and the later pairs,
\* at later times, are still there in order.
C19_Witness ==
    /\ call.op = "bs_add_sample"
    /\ Len(fed[call.serial]) = MaxDriftSamples + 1
    /\ [k \in 1..Len(fed[call.serial]) |-> fed[call.serial][k][2]] =
          << <<0, 0, 0>>, <<0, 4, 0>>, <<0, 8, 0>>, <<3, 4, 0>> >>
    /\ fed[call.serial][2][1] > fed[call.serial][1][1]
    /\ bs_widgets[call.serial].drift_data = << 4000, 8000, 5000 >>
    /\ Len(bs_widgets[call.serial].time_data) = MaxDriftSamples
    /\ bs_widgets[call.serial].time_data[1] > 0

\* The frames of a tick that are valid frames of a reference device.
IsReferenceData(data) == data.device_class = TrackedDeviceClass_TrackingReference

ValidReferenceSerials(tracker_data) ==
    {tracker_data[k].serial : k \in {j \in 1..Len(tracker_data) :
        tracker_data[j].is_valid /\ IsReferenceData(tracker_data[j])}}

\* C20: routing by device class.  In a tick, a valid sample of a reference
\* device is added to the stats window of the device and to its drift
\* monitor (with the tick's time stamp); a valid sample of a tracker or a
\* controller is added to its stats window and to no drift monitor; an
\* invalid sample is added to neither.  No device other than a reference
\* device has a drift monitor, and no step but such a sample adds anything
\* to a drift monitor.
C20_Routing ==
    [][ /\ call'.op = "tick" =>
            \A k \in 1..Len(call'.tracker_data) :
                LET data == call'.tracker_data[k]
                    s == data.serial
                IN  /\ (data.is_valid /\ IsReferenceData(data)) =>
                          /\ added'[s] = Append(added[s], data.position)
                          /\ Last(Window(_history', s)) = data.position
                          /\ s \in DOMAIN bs_widgets'
                          /\ fed'[s] = Append(fed[s], << now', data.position >>)
                          /\ Last(bs_widgets'[s].time_data) =
                                now' - bs_widgets'[s].start_time[1]
                          /\ Last(bs_widgets'[s].drift_data) =
                                Norm(Sub(data.position,
                                         bs_widgets'[s].initial_position[1])) * 1000
                    /\ (data.is_valid /\ ~IsReferenceData(data)) =>
                          /\ added'[s] = Append(added[s], data.position)
                          /\ Last(Window(_history', s)) = data.position
                          /\ s \notin DOMAIN bs_widgets'
                          /\ fed'[s] = fed[s]
                    /\ ~data.is_valid =>
                          /\ added'[s] = added[s]
                          /\ Window(_history', s) = Window(_history, s)
                          /\ fed'[s] = fed[s]
        /\ \A s \in DOMAIN bs_widgets' : IsBaseStationSerial(s)
        /\ \A s \in Serials :
              Len(fed'[s]) > Len(fed[s]) =>
                  /\ call'.op = "tick"
                  /\ s \in ValidReferenceSerials(call'.tracker_data)
        /\ \A s \in DOMAIN bs_widgets \cap DOMAIN bs_widgets' :
              bs_widgets'[s].drift_data # bs_widgets[s].drift_data =>
                  \/ Len(fed'[s]) > Len(fed[s])
                  \/ bs_widgets'[s].drift_data = << >>
      ]_vars

\* C20: a tracker had a valid sample in an earlier tick, which is in its
\* stats window and in no drift monitor, and the tick just done gave a valid
\* sample of a base station, which is in its stats window and in its drift
\* monitor.
C20_Witness ==
    /\ call.op = "tick"
    /\ Len(call.tracker_data) = 1
    /\ call.tracker_data[1].is_valid
    /\ IsReferenceData(call.tracker_data[1])
    /\ LET s == call.tracker_data[1].serial
       IN  /\ Last(Window(_history, s)) = call.tracker_data[1].position
           /\ fed[s] = << << now, call.tracker_data[1].position >> >>
           /\ bs_widgets[s].drift_data = << 0 >>
    /\ Len(added[SerialT]) = 1
    /\ Window(_history, SerialT) = added[SerialT]
    /\ fed[SerialT] = << >>
    /\ SerialT \notin DOMAIN bs_widgets

\* A valid frame of a tracker or a controller.
IsTrackableData(data) == data.is_valid /\ ~IsReferenceData(data)

\* The plot widgets a device may have: none, or one that is or is not
\* enabled and is or is not shown.
WidgetVariants(s) ==
    {<< >>} \cup
    { [x \in {s} |-> [TrackerPlotWidget EXCEPT !.is_enabled = e, !.visible = v]] :
        e \in BOOLEAN, v \in BOOLEAN }

\* C21: ingestion does not depend on presentation.  In every tick each valid
\* sample of a tracker or a controller is added to the stats window of its
\* device and gets one export record, in the order of the poll, and the
\* window and the record are the same whatever the throttle counter is and
\* whether or not the device has a plot widget, enabled or not, shown or
\* not.  What is gated is the widget alone: its plot buffer takes the
\* sample when and only when it is shown and enabled, its curve and its
\* stats label change on every third tick only and only when it is shown and
\* enabled, and its loss label changes on every third tick only.
C21_Ingestion ==
    [][ call'.op = "tick" =>
          LET valid == SelectSeq(call'.tracker_data, IsTrackableData)
              n == Len(_samples)
              throttle == plot_update_counter % plot_update_interval = 0
          IN  /\ Len(_samples') = n + Len(valid)
              /\ \A k \in 1..Len(valid) :
                    LET data == valid[k]
                        s == data.serial
                        row == _samples'[n + k]
                    IN  /\ added'[s] = Append(added[s], data.position)
                        /\ Last(Window(_history', s)) = data.position
                        /\ row.timestamp = now'
                        /\ row.serial = s
                        /\ << row.x, row.y, row.z >> = data.position
                        /\ << row.rot_pitch, row.rot_yaw, row.rot_roll >> = data.rotation
                        /\ \A c \in 0..(plot_update_interval - 1), tw \in WidgetVariants(s) :
                              LET r == ProcessTrackable([TickState EXCEPT !.tw = tw],
                                                        data, now', c)
                              IN  /\ Window(r.history, s) = Window(_history', s)
                                  /\ Last(r.samples) = row
                        /\ s \in DOMAIN tracker_widgets' =>
                              LET w == tracker_widgets'[s]
                              IN  (w.visible /\ w.is_enabled) =>
                                      /\ w.data # << >>
                                      /\ Last(w.data)[2] = data.position
              /\ \A s \in DOMAIN tracker_widgets \cap DOMAIN tracker_widgets' :
                    LET w == tracker_widgets[s]
                        wn == tracker_widgets'[s]
                    IN  /\ wn.data # w.data => wn.visible /\ wn.is_enabled
                        /\ (wn.curve # w.curve \/ wn.stats_label # w.stats_label) =>
                              wn.visible /\ wn.is_enabled /\ throttle
                        /\ wn.loss_label # w.loss_label => throttle
      ]_vars

\* C21: the tick just done was not a third tick and gave a valid sample of a
\* tracker whose plot widget is not shown; the widget's buffer is empty, and
\* the sample is in the stats window and in the last export record.
C21_Witness ==
    /\ call.op = "tick"
    /\ (plot_update_counter - 1) % plot_update_interval # 0
    /\ Len(call.tracker_data) = 1
    /\ IsTrackableData(call.tracker_data[1])
    /\ LET s == call.tracker_data[1].serial
       IN  /\ s \in DOMAIN tracker_widgets
           /\ ~tracker_widgets[s].visible
           /\ tracker_widgets[s].data = << >>
           /\ Last(Window(_history, s)) = call.tracker_data[1].position
           /\ _samples # << >>
           /\ Last(_samples).serial = s
           /\ Last(_samples).timestamp = now
           /\ Last(_samples).y = 8

\* C22: within a tick the sample is added to the stats window before the
\* deviation of its export record is computed.  The sigma of the record of
\* a valid tracker or controller sample is the population deviation of the
\* window that already holds the sample (the latest valid samples since the
\* clear, this one last), (0,0,0) when that window holds one sample; so the
\* first record of a device after a clear has sigma (0,0,0).
C22_Order ==
    [][ call'.op = "tick" =>
          LET valid == SelectSeq(call'.tracker_data, IsTrackableData)
              n == Len(_samples)
          IN  \A k \in 1..Len(valid) :
                LET data == valid[k]
                    s == data.serial
                    row == _samples'[n + k]
                    sigma == << row.sigma_x, row.sigma_y, row.sigma_z >>
                    seen == Append(added[s], data.position)
                    window == LastN(seen, Min(WindowSize, Len(seen)))
                IN  /\ n + k <= Len(_samples')
                    /\ Last(window) = data.position
                    /\ Window(_history', s) = window
                    /\ \A i \in 1..3 :
                          IF Len(window) < 2 THEN sigma[i] = Zero
                          ELSE IsPopulationVariance(sigma[i], Axis(window, i))
                    /\ added[s] = << >> => sigma = << Zero, Zero, Zero >>
      ]_vars

\* C22: a tracker's first sample after the clear was at the origin and its
\* record has sigma (0,0,0); the sample of the tick just done is 8 mm away
\* on y, and its record has sigma y 4 mm (variance 16), the deviation of the
\* two samples, not that of the first alone.
C22_Witness ==
    /\ call.op = "tick"
    /\ Len(call.tracker_data) = 1
    /\ IsTrackableData(call.tracker_data[1])
    /\ added[call.tracker_data[1].serial] = << <<0, 0, 0>>, <<0, 8, 0>> >>
    /\ Len(_samples) = 2
    /\ _samples[1].sigma_y = Zero
    /\ _samples[2].serial = call.tracker_data[1].serial
    /\ _samples[2].y = 8
    /\ _samples[2].sigma_x = Zero
    /\ _samples[2].sigma_y = Ratio(16, 1)

\* C23: measurement implies connection.  Whenever measurement is active or
\* the timer runs, the tracker monitor is initialized; the two go together;
\* Start is enabled only while the monitor is initialized; and the
\* Connect/Disconnect button is disabled exactly while measurement is
\* active.  So no tick finds the monitor shut down.
C23_Connected ==
    /\ is_measuring <=> timer_active
    /\ (is_measuring \/ timer_active) => is_initialized
    /\ start_btn => is_initialized
    /\ connect_btn <=> ~is_measuring
    /\ (call.op = "tick" /\ timer_active) => is_initialized

\* C23: measurement is active and its second tick or a later one has just
\* run and read frames from the initialized monitor, with the Connect and
\* Start buttons disabled.
C23_Witness ==
    /\ call.op = "tick"
    /\ is_measuring
    /\ timer_active
    /\ is_initialized
    /\ ~connect_btn
    /\ ~start_btn
    /\ call.tracker_data # << >>
    /\ plot_update_counter >= 2

\* C24: the Stop button is enabled exactly while measurement is active, and
\* Start and Stop are never enabled together.
C24_Buttons ==
    /\ stop_btn <=> is_measuring
    /\ ~(start_btn /\ stop_btn)

\* C24: measurement was started, stopped and started again: Stop is enabled
\* and Start is not, after a state in which Start was enabled and Stop was
\* not.
C24_Witness ==
    /\ call.op = "start"
    /\ is_measuring
    /\ stop_btn
    /\ ~start_btn
    /\ plot_update_counter >= 1

\* C25: whenever the Save CSV button is enabled, measurement is not active
\* and the export buffer holds at least one sample; Start and Clear Data
\* leave the button disabled, and Stop leaves it enabled exactly when the
\* buffer is not empty.
C25_SaveButton ==
    /\ [](save_btn => (~is_measuring /\ csv_get_sample_count(_samples) >= 1))
    /\ [][ /\ call'.op \in {"start", "clear"} => ~save_btn'
           /\ (is_measuring /\ ~is_measuring') =>
                 (save_btn' <=> Len(_samples') > 0)
         ]_vars

\* C25: a run that exported a sample has been stopped: Save CSV is enabled,
\* measurement is not active and the buffer is not empty.
C25_Witness ==
    /\ save_btn
    /\ ~is_measuring
    /\ start_btn
    /\ ~stop_btn
    /\ csv_get_sample_count(_samples) >= 1
    /\ Last(_samples).timestamp = now

\* C26: Start Measurement empties the stats window and the counters of every
\* device, the plot buffers of every tracker widget and every drift monitor
\* (back to CALIBRATING, no baseline), and leaves the export buffer as it
\* is; Clear Data is what empties the export buffer.  Records of an earlier
\* run stay in the buffer, ahead of those of the new run, and a save writes
\* them all.
C26_StartKeepsExport ==
    [][ /\ call'.op = "start" =>
              /\ _samples' = _samples
              /\ \A s \in Serials :
                    /\ Window(_history', s) = << >>
                    /\ Total(_total_frames', s) = 0
                    /\ Lost(_lost_frames', s) = 0
              /\ DOMAIN tracker_widgets' = DOMAIN tracker_widgets
              /\ \A s \in DOMAIN tracker_widgets' :
                    /\ tracker_widgets'[s].data = << >>
                    /\ tracker_widgets'[s].start_time = None
                    /\ tracker_widgets'[s].curve = << >>
              /\ DOMAIN bs_widgets' = DOMAIN bs_widgets
              /\ \A s \in DOMAIN bs_widgets' :
                    /\ bs_widgets'[s].time_data = << >>
                    /\ bs_widgets'[s].drift_data = << >>
                    /\ bs_widgets'[s].initial_position = None
                    /\ bs_widgets'[s].status_label = STATUS_CALIBRATING
        /\ call'.op = "clear" => _samples' = << >>
        /\ call'.op = "tick" =>
              /\ Len(_samples') >= Len(_samples)
              /\ SubSeq(_samples', 1, Len(_samples)) = _samples
        /\ call'.op \notin {"clear", "tick"} => _samples' = _samples
        /\ call'.op = "save" => Len(call'.file) = Len(_samples) + 1
      ]_vars

\* C26: the export buffer holds a tracker's record of an earlier run and
\* then its record of the run going on, whose stats window holds the one
\* sample taken since Start.
C26_Witness ==
    /\ call.op = "tick"
    /\ is_measuring
    /\ Len(_samples) = 2
    /\ _samples[1].serial = SerialT
    /\ _samples[2].serial = SerialT
    /\ _samples[1].timestamp < _samples[2].timestamp
    /\ Len(added[SerialT]) = 1
    /\ Len(Window(_history, SerialT)) = 1
    /\ _samples[2].sigma_y = Zero

\* C27: the queries are read-only.  get_loss_rate, get_std_dev,
\* get_distance_std, get_sample_count and get_all_serials leave the windows
\* and the counters of every device as they were and create no entry, also
\* for a device that has no window or no counters.
C27_ReadOnly ==
    [][ call'.op \in Queries \cup {"get_all_serials"} =>
          /\ _history' = _history
          /\ _total_frames' = _total_frames
          /\ _lost_frames' = _lost_frames
          /\ DOMAIN _history' = DOMAIN _history
          /\ DOMAIN _total_frames' = DOMAIN _total_frames
          /\ DOMAIN _lost_frames' = DOMAIN _lost_frames
          /\ \A s \in Serials :
                /\ Window(_history', s) = Window(_history, s)
                /\ Total(_total_frames', s) = Total(_total_frames, s)
                /\ Lost(_lost_frames', s) = Lost(_lost_frames, s)
      ]_vars

\* C27: get_std_dev has just been called for a device that has no window
\* and no counters, while another device has both: it returned zeros and
\* the device still has neither.
C27_Witness ==
    /\ call.op = "get_std_dev"
    /\ call.serial = SerialC
    /\ call.result = << Zero, Zero, Zero >>
    /\ SerialC \notin DOMAIN _history
    /\ SerialC \notin DOMAIN _total_frames
    /\ SerialC \notin DOMAIN _lost_frames
    /\ Len(Window(_history, SerialT)) = 2
    /\ Total(_total_frames, SerialT) = 1

\* C28: in every state of a drift monitor the baseline is set exactly when
\* the time origin is set and exactly when the state is not CALIBRATING,
\* and with no baseline both series of the history are empty.
C28_BaselineOriginState ==
    \A s \in DOMAIN bs_widgets :
        LET w == bs_widgets[s]
        IN  /\ (w.initial_position # None) <=> (w.start_time # None)
            /\ (w.initial_position # None) <=> (w.status_label # STATUS_CALIBRATING)
            /\ w.initial_position = None =>
                  (w.time_data = << >> /\ w.drift_data = << >>)

\* C28: a monitor that was DISPLACED has just been reset: no baseline, no
\* time origin, CALIBRATING, and an empty history, at a time later than 0.
C28_Witness ==
    /\ call.op = "bs_clear_data"
    /\ call.was = STATUS_MOVEMENT
    /\ now > 0
    /\ LET w == bs_widgets[call.serial]
       IN  /\ w.initial_position = None
           /\ w.start_time = None
           /\ w.status_label = STATUS_CALIBRATING
           /\ w.time_data = << >>
           /\ w.drift_data = << >>

=============================================================================
